---------------------------- MODULE Spec2Model ----------------------------
(***************************************************************************)
(* Model of the AI chat pipeline of the project-management application:    *)
(*   - the Stream Decoder   (streamChat in AIChat.tsx),                     *)
(*   - the Chat Relay       (the serve handler of the ai-assistant         *)
(*                           edge function),                               *)
(*   - the Context Assembler (getProjectContext / getWorkspaceContext),    *)
(*   - the chat transcript  (sendMessage, updateAssistant, clearChat),     *)
(*   - the row-level policies of the migration the relay's reads meet.     *)
(*                                                                         *)
(* Text is a sequence of one-character strings.  The alphabet is cut down  *)
(* to the characters the code tells apart: "d" stands for the word "data", *)
(* "D" for the word "DONE", a record is "{" letters "}" and its content is *)
(* the letters; ":" " " "[" "]" and the two line ends are themselves.      *)
(***************************************************************************)
EXTENDS Integers, Sequences, FiniteSets, TLC

VARIABLES
    \* ---- Stream Decoder (AIChat.tsx, streamChat) ----
    wire,        \* the characters the response body delivers, in order
    pos,         \* how many of them reader.read() has handed over
    splitLine,   \* the line the latest read began in the middle of, else 0
    textBuffer,  \* let textBuffer
    streamDone,  \* let streamDone
    lineNo,      \* how many lines have been taken from textBuffer for good
    deltas,      \* the calls of onDelta so far: [text, line]
    dpc,         \* position in streamChat: "read", "flush", "done"
    \* ---- the backend the relay reads ----
    db,          \* the tables: projects, tasks, project_members, user_roles, ...
    now,         \* new Date(), in half-days
    apiKey,      \* Deno.env.get("LOVABLE_API_KEY"): configured or not
    \* ---- Chat Relay (ai-assistant edge function, serve handler) ----
    req,         \* the inbound request: method, authorization, body
    rpc,         \* position in the handler
    user,        \* the user getUser resolved the token to ("" before that)
    context,     \* the snapshot the Context Assembler returned
    failed,      \* the lookups of the Context Assembler that failed
    upstream,    \* what the upstream fetch gave: a response, or it threw
    resp,        \* the response returned to the caller
    calls,       \* how often getUser, the assembler and the upstream were called
    console,     \* the texts written with console.error
    \* ---- AIChat (AIChat.tsx, the component's state and sendMessage) ----
    messages,    \* useState<Message[]>: the transcript, [id, role, content]
    isLoading,   \* useState(false)
    session,     \* useAuth().session: is there one
    sent,        \* how many sendMessage calls got past the guard
    assistantContent,  \* let assistantContent of the running sendMessage
    assistantId, \* const assistantId of the running sendMessage
    cpc,         \* position of the running sendMessage: "idle", "fetch", "stream"
    \* ---- signups (the migration's handle_new_user trigger) ----
    tx,          \* per new user: the transaction inserting it into auth.users
    signedUp,    \* the users whose signup committed, in commit order
    \* ---- AuthProvider (AuthContext.tsx) ----
    clientSession,  \* the session the auth client holds: its user, or none
    events,      \* the auth events not yet handed to the listener: sessions
    gotSession,  \* has the getSession() promise of the effect resolved
    authUser,    \* useState user (and session): the user's id, or none
    userProfile, \* useState profile
    userRole,    \* useState role
    loading,     \* useState loading
    timers,      \* the setTimeout(..., 0) callbacks not yet run: user ids
    fetches,     \* the fetchProfile / fetchRole calls awaiting their answer
    signIns,     \* how many signIn calls succeeded
    signingOut   \* signOut() is awaiting supabase.auth.signOut()

decVars == <<wire, pos, splitLine, textBuffer, streamDone, lineNo, deltas, dpc>>

envVars == <<db, now, apiKey>>

relayVars == <<req, rpc, user, context, failed, upstream, resp, calls, console>>

chatVars == <<messages, isLoading, session, sent, assistantContent, assistantId, cpc>>

signupVars == <<tx, signedUp>>

authVars == <<clientSession, events, gotSession, authUser, userProfile, userRole,
              loading, timers, fetches, signIns, signingOut>>

vars == <<decVars, envVars, relayVars, chatVars, signupVars, authVars>>

-----------------------------------------------------------------------------
(* Bounds *)

MaxLines == 3     \* lines in a stream fed to the decoder
MaxWire == 18     \* characters in a stream fed to the decoder
MaxTasks == 2     \* rows of the tasks table the assembler is tried on
MaxSends == 2     \* messages sent in one chat
MaxRows == 12     \* rows of the large tables the assembler is tried on
MaxSignups == 3   \* users that sign up
MaxSignIns == 2   \* signIn calls that succeed

-----------------------------------------------------------------------------
(* Text helpers: the String methods streamChat uses *)

NL == "\n"
CR == "\r"
WhiteSpace == {" ", NL, CR}

\* String.prototype.indexOf(c): the first index of c, 0 when there is none
\* (JavaScript's -1; indices here start at 1).
RECURSIVE IndexFrom(_, _, _)
IndexFrom(s, c, i) ==
    IF i > Len(s) THEN 0 ELSE IF s[i] = c THEN i ELSE IndexFrom(s, c, i + 1)

IndexOf(s, c) == IndexFrom(s, c, 1)

StartsWith(s, p) == Len(s) >= Len(p) /\ SubSeq(s, 1, Len(p)) = p

EndsWith(s, p) == Len(s) >= Len(p) /\ SubSeq(s, Len(s) - Len(p) + 1, Len(s)) = p

\* s.slice(n): s without its first n characters
SliceFrom(s, n) == SubSeq(s, n + 1, Len(s))

\* String.prototype.trim()
RECURSIVE TrimStart(_)
TrimStart(s) ==
    IF s # <<>> /\ Head(s) \in WhiteSpace THEN TrimStart(Tail(s)) ELSE s

RECURSIVE TrimEnd(_)
TrimEnd(s) ==
    IF s # <<>> /\ s[Len(s)] \in WhiteSpace
    THEN TrimEnd(SubSeq(s, 1, Len(s) - 1)) ELSE s

Trim(s) == TrimEnd(TrimStart(s))

\* if (line.endsWith("\r")) line = line.slice(0, -1)
StripCR(s) == IF EndsWith(s, <<CR>>) THEN SubSeq(s, 1, Len(s) - 1) ELSE s

\* String.prototype.split("\n"): the pieces between newlines, the last one
\* (after the last newline) included even when empty.
RECURSIVE SplitNL(_)
SplitNL(s) ==
    LET nl == IndexOf(s, NL)
    IN  IF nl = 0 THEN <<s>>
        ELSE <<SubSeq(s, 1, nl - 1)>> \o SplitNL(SliceFrom(s, nl))

RECURSIVE Concat(_)
Concat(ss) == IF ss = <<>> THEN <<>> ELSE Head(ss) \o Concat(Tail(ss))

-----------------------------------------------------------------------------
(* The record format *)

DataPrefix == <<"d", ":", " ">>       \* "data: "
DoneSentinel == <<"[", "D", "]">>     \* "[DONE]"
Letters == {"a", "b"}

\* JSON.parse(jsonStr) followed by parsed.choices?.[0]?.delta?.content:
\* a well-formed record gives its content (possibly empty: no content field),
\* anything else throws.
JsonParse(s) ==
    IF /\ Len(s) >= 2
       /\ s[1] = "{"
       /\ s[Len(s)] = "}"
       /\ \A i \in 2..(Len(s) - 1) : s[i] \in Letters
    THEN [ok |-> TRUE, content |-> SubSeq(s, 2, Len(s) - 1)]
    ELSE [ok |-> FALSE, content |-> <<>>]

\* line.startsWith(":") || line.trim() === ""
IsCommentOrBlank(line) == StartsWith(line, <<":">>) \/ Trim(line) = <<>>

\* A faulty variant of IsDataLine: the prefix test without the space.
IsDataLine_NoSpace(line) == StartsWith(line, <<"d", ":">>)

\* line.startsWith("data: ")
IsDataLine(line) == StartsWith(line, DataPrefix)

\* line.slice(6).trim()
JsonStr(line) == Trim(SliceFrom(line, Len(DataPrefix)))

-----------------------------------------------------------------------------
(* streamChat: the inner while loop over the complete lines of textBuffer *)

\* One call of onDelta, as the log keeps it.
Delta(text, line) == [text |-> text, line |-> line]

\* A faulty variant of ReadLoop: the failed line is put back without its
\* newline (textBuffer = line + textBuffer).
RECURSIVE ReadLoop_PushBackNoNewline(_, _, _)
ReadLoop_PushBackNoNewline(buf, out, n) ==
    LET nl == IndexOf(buf, NL)
    IN  IF nl = 0
        THEN [buf |-> buf, out |-> out, n |-> n, done |-> FALSE]
        ELSE
          LET line == StripCR(SubSeq(buf, 1, nl - 1))
              rest == SliceFrom(buf, nl)
          IN  IF IsCommentOrBlank(line) THEN ReadLoop_PushBackNoNewline(rest, out, n + 1)
              ELSE IF ~IsDataLine(line) THEN ReadLoop_PushBackNoNewline(rest, out, n + 1)
              ELSE IF JsonStr(line) = DoneSentinel
                   THEN [buf |-> rest, out |-> out, n |-> n + 1, done |-> TRUE]
              ELSE LET parsed == JsonParse(JsonStr(line))
                   IN  IF parsed.ok
                       THEN ReadLoop_PushBackNoNewline(rest,
                                IF parsed.content # <<>>
                                THEN Append(out, Delta(parsed.content, n + 1))
                                ELSE out,
                                n + 1)
                       ELSE [buf |-> line \o rest, out |-> out,
                             n |-> n, done |-> FALSE]

\* The loop `while ((newlineIndex = textBuffer.indexOf("\n")) !== -1)`.
\* buf: textBuffer; out: the onDelta calls so far; n: lines taken so far.
RECURSIVE ReadLoop(_, _, _)
ReadLoop(buf, out, n) ==
    LET nl == IndexOf(buf, NL)
    IN  IF nl = 0
        THEN [buf |-> buf, out |-> out, n |-> n, done |-> FALSE]
        ELSE
          LET line == StripCR(SubSeq(buf, 1, nl - 1))
              rest == SliceFrom(buf, nl)
          IN  IF IsCommentOrBlank(line) THEN ReadLoop(rest, out, n + 1)
              ELSE IF ~IsDataLine(line) THEN ReadLoop(rest, out, n + 1)
              ELSE IF JsonStr(line) = DoneSentinel
                   THEN [buf |-> rest, out |-> out, n |-> n + 1, done |-> TRUE]
              ELSE LET parsed == JsonParse(JsonStr(line))
                   IN  IF parsed.ok
                       THEN ReadLoop(rest,
                                IF parsed.content # <<>>
                                THEN Append(out, Delta(parsed.content, n + 1))
                                ELSE out,
                                n + 1)
                       \* catch: textBuffer = line + "\n" + textBuffer; break
                       ELSE [buf |-> line \o <<NL>> \o rest, out |-> out,
                             n |-> n, done |-> FALSE]

\* A faulty variant of FlushLoop: an unparseable piece ends the flush (the
\* parse error is not ignored but breaks out of the loop).
RECURSIVE FlushLoop_StopsAtBadLine(_, _, _, _)
FlushLoop_StopsAtBadLine(pieces, i, out, n) ==
    IF i > Len(pieces) THEN out
    ELSE
      LET raw  == pieces[i]
          line == StripCR(raw)
      IN  IF raw = <<>> THEN FlushLoop_StopsAtBadLine(pieces, i + 1, out, n)
          ELSE IF IsCommentOrBlank(line)
               THEN FlushLoop_StopsAtBadLine(pieces, i + 1, out, n)
          ELSE IF ~IsDataLine(line)
               THEN FlushLoop_StopsAtBadLine(pieces, i + 1, out, n)
          ELSE IF JsonStr(line) = DoneSentinel
               THEN FlushLoop_StopsAtBadLine(pieces, i + 1, out, n)
          ELSE LET parsed == JsonParse(JsonStr(line))
               IN  IF ~parsed.ok THEN out
                   ELSE FlushLoop_StopsAtBadLine(pieces, i + 1,
                           IF parsed.content # <<>>
                           THEN Append(out, Delta(parsed.content, n + i))
                           ELSE out,
                           n)

\* The final flush: `for (let raw of textBuffer.split("\n"))`, i-th piece on.
RECURSIVE FlushLoop(_, _, _, _)
FlushLoop(pieces, i, out, n) ==
    IF i > Len(pieces) THEN out
    ELSE
      LET raw  == pieces[i]
          line == StripCR(raw)
      IN  IF raw = <<>> THEN FlushLoop(pieces, i + 1, out, n)
          ELSE IF IsCommentOrBlank(line) THEN FlushLoop(pieces, i + 1, out, n)
          ELSE IF ~IsDataLine(line) THEN FlushLoop(pieces, i + 1, out, n)
          ELSE IF JsonStr(line) = DoneSentinel THEN FlushLoop(pieces, i + 1, out, n)
          ELSE LET parsed == JsonParse(JsonStr(line))
               IN  FlushLoop(pieces, i + 1,
                       IF parsed.ok /\ parsed.content # <<>>
                       THEN Append(out, Delta(parsed.content, n + i))
                       ELSE out,
                       n)

\* `if (textBuffer.trim()) { for ... }`
FinalFlushOf(buf, out, n) ==
    IF Trim(buf) # <<>> THEN FlushLoop(SplitNL(buf), 1, out, n) ELSE out

-----------------------------------------------------------------------------
(* The streams the model feeds the decoder *)

LineKinds ==
    { <<"d", ":", " ", "{", "a", "b", "}">>,       \* a record, content "ab"
      <<"d", ":", " ", " ", "{", "b", "}", CR>>,   \* padded, CRLF line end
      <<"d", ":", " ", "{", "}">>,                 \* a record without content
      <<"d", ":", " ", "{", "a">>,                 \* a record cut short
      <<"d", ":", " ", "[", "D", "]">>,            \* data: [DONE]
      <<":", "a">>,                                \* a comment / heartbeat
      <<>>,                                        \* an empty line
      <<"d", ":", "{", "a", "}">> }                \* not a data line

RECURSIVE JoinNL(_)
JoinNL(ls) == IF ls = <<>> THEN <<>> ELSE Head(ls) \o <<NL>> \o JoinNL(Tail(ls))

LineSeqs == UNION { [1..n -> LineKinds] : n \in 1..MaxLines }

\* Every line ends with a newline, except possibly the last.
WiresOf(ls) ==
    LET w == JoinNL(ls) IN {w, SubSeq(w, 1, Len(w) - 1)}

Wires == {w \in UNION {WiresOf(ls) : ls \in LineSeqs} : Len(w) <= MaxWire}

\* The number of the line that holds the character after offset p.
LineAt(w, p) == 1 + Cardinality({i \in 1..p : w[i] = NL})

-----------------------------------------------------------------------------
(* The backend: tables, row-level policies, queries *)

NoDate == 0          \* tasks.due_date IS NULL (days are numbered from 1)
NoId == ""           \* undefined / null identifier
NoName == ""         \* profiles.full_name IS NULL

\* public.has_role(_user_id, _role)
has_role(d, uid, role) ==
    \E r \in d.user_roles : r.user_id = uid /\ r.role = role

\* public.is_project_member(_user_id, _project_id)
is_project_member(d, uid, pid) ==
    \/ \E i \in DOMAIN d.project_members :
           d.project_members[i].user_id = uid /\ d.project_members[i].project_id = pid
    \/ \E i \in DOMAIN d.projects :
           d.projects[i].id = pid /\ d.projects[i].created_by = uid

\* public.is_project_client(_user_id, _project_id)
is_project_client(d, uid, pid) ==
    /\ \E c \in d.project_clients : c.user_id = uid /\ c.project_id = pid
    /\ has_role(d, uid, "client")

\* The SELECT policies on projects (permissive policies are OR-ed).
ProjectsSelectPolicy(d, uid, row) ==
    \/ is_project_member(d, uid, row.id) \/ has_role(d, uid, "admin")
    \/ is_project_client(d, uid, row.id)

\* The SELECT policies on tasks.
TasksSelectPolicy(d, uid, row) ==
    \/ is_project_member(d, uid, row.project_id) \/ has_role(d, uid, "admin")
    \/ is_project_client(d, uid, row.project_id)

\* The SELECT policy on project_members.
MembersSelectPolicy(d, uid, row) ==
    is_project_member(d, uid, row.project_id) \/ has_role(d, uid, "admin")

\* createClient(supabaseUrl, supabaseServiceKey): the relay's one client
\* carries the service-role key and no user session, so auth.uid() is null
\* and the role bypasses row-level security.
RelayClient == [key |-> "service_role", uid |-> NoId]

\* The rows of a table a client's SELECT sees.
VisibleProjects(client, d) ==
    LET Test(r) == client.key = "service_role" \/ ProjectsSelectPolicy(d, client.uid, r)
    IN  SelectSeq(d.projects, Test)

\* Task rows carry their position in the table as id; the table is kept in
\* creation order.
TaskRows(d) == [i \in DOMAIN d.tasks |-> [id |-> i] @@ d.tasks[i]]

VisibleTasks(client, d) ==
    LET Test(r) == client.key = "service_role" \/ TasksSelectPolicy(d, client.uid, r)
    IN  SelectSeq(TaskRows(d), Test)

VisibleMembers(client, d) ==
    LET Test(r) == client.key = "service_role" \/ MembersSelectPolicy(d, client.uid, r)
    IN  SelectSeq(d.project_members, Test)

\* "Users can view all profiles"
VisibleProfiles(client, d) == d.profiles

\* A faulty variant of Reverse: the rows are left in ascending order.
Reverse_Ascending(s) == s

Reverse(s) == [i \in DOMAIN s |-> s[Len(s) + 1 - i]]

\* .limit(n)
Limit(s, n) == SubSeq(s, 1, IF Len(s) < n THEN Len(s) ELSE n)

\* The embedded profile of a foreign key: full_name, or NoName when the key
\* is null or the profile has no full name.
FullNameOf(d, uid) ==
    IF \E i \in DOMAIN d.profiles : d.profiles[i].id = uid
    THEN d.profiles[CHOOSE i \in DOMAIN d.profiles : d.profiles[i].id = uid].full_name
    ELSE NoName

EmailOf(d, uid) ==
    IF \E i \in DOMAIN d.profiles : d.profiles[i].id = uid
    THEN d.profiles[CHOOSE i \in DOMAIN d.profiles : d.profiles[i].id = uid].email
    ELSE NoName

\* A query's outcome {data, error}: data is null when the lookup failed.
Data(rows) == [null |-> FALSE, rows |-> rows]
NullData == [null |-> TRUE, rows |-> <<>>]

-----------------------------------------------------------------------------
(* The Context Assembler *)

RecentLimit == 10
ProjectLimit == 10
PendingLimit == 10
MemberLimit == 20

ProjectLookups == {"project", "tasks", "members"}
WorkspaceLookups == {"projects", "myTasks", "profiles"}

\* new Date("YYYY-MM-DD"): midnight (UTC) of the day, in half-days.
DateToTime(day) == 2 * day

\* A faulty variant of IsOverdue: the status is not looked at.
IsOverdue_AnyStatus(t, tnow) ==
    t.due_date # NoDate /\ DateToTime(t.due_date) < tnow

\* t.due_date && new Date(t.due_date) < new Date() && t.status !== "done"
IsOverdue(t, tnow) ==
    t.due_date # NoDate /\ DateToTime(t.due_date) < tnow /\ t.status # "done"

\* tasks?.filter(...).length || 0
CountStatus(tasks, st) ==
    LET Test(t) == t.status = st IN Len(SelectSeq(tasks.rows, Test))

CountOverdue(tasks, tnow) ==
    LET Test(t) == IsOverdue(t, tnow) IN Len(SelectSeq(tasks.rows, Test))

\* The workload loop: one more for every task that has an assignee.
RECURSIVE Workload(_, _)
Workload(rows, uid) ==
    IF rows = <<>> THEN 0
    ELSE (IF Head(rows).assigned_to = uid THEN 1 ELSE 0) + Workload(Tail(rows), uid)

Assignees(rows) == {rows[i].assigned_to : i \in DOMAIN rows} \ {NoId}

\* getProjectContext(supabase, userId, projectId).  lost: the lookups whose
\* query comes back with an error (data null).
GetProjectContext(client, d, tnow, uid, pid, lost) ==
    LET ForProject(r) == r.id = pid
        found   == SelectSeq(VisibleProjects(client, d), ForProject)
        \* .single(): an error unless exactly one row matches
        project == IF "project" \in lost \/ Len(found) # 1 THEN NullData ELSE Data(found)
        OfProject(r) == r.project_id = pid
        \* .order("created_at", { ascending: false })
        tasks   == IF "tasks" \in lost THEN NullData
                   ELSE Data(Reverse(SelectSeq(VisibleTasks(client, d), OfProject)))
        members == IF "members" \in lost THEN NullData
                   ELSE Data(SelectSeq(VisibleMembers(client, d), OfProject))
    IN  [kind |-> "project",
         project |-> [null |-> project.null,
                      rows |-> [i \in DOMAIN project.rows |->
                                   [id |-> project.rows[i].id]]],
         taskStats |->
            [total      |-> Len(tasks.rows),
             todo       |-> CountStatus(tasks, "todo"),
             inProgress |-> CountStatus(tasks, "in_progress"),
             done       |-> CountStatus(tasks, "done"),
             overdue    |-> CountOverdue(tasks, tnow)],
         recentTasks |->
            [null |-> tasks.null,
             rows |-> [i \in DOMAIN Limit(tasks.rows, RecentLimit) |->
                          [id       |-> tasks.rows[i].id,
                           status   |-> tasks.rows[i].status,
                           dueDate  |-> tasks.rows[i].due_date,
                           assignee |->
                              IF FullNameOf(d, tasks.rows[i].assigned_to) # NoName
                              THEN FullNameOf(d, tasks.rows[i].assigned_to)
                              ELSE "Unassigned"]]],
         teamMembers |->
            [null |-> members.null,
             rows |-> [i \in DOMAIN members.rows |->
                          [id        |-> members.rows[i].user_id,
                           name      |->
                              IF FullNameOf(d, members.rows[i].user_id) # NoName
                              THEN FullNameOf(d, members.rows[i].user_id)
                              ELSE EmailOf(d, members.rows[i].user_id),
                           taskCount |-> Workload(tasks.rows, members.rows[i].user_id)]]],
         workloadDistribution |->
            [u \in Assignees(tasks.rows) |-> Workload(tasks.rows, u)]]

\* A faulty variant of DueBefore: rows without a due date come first.
DueBefore_NullsFirst(a, b) ==
    b.due_date # NoDate /\ (a.due_date = NoDate \/ a.due_date < b.due_date)

\* .order("due_date", { ascending: true }): ascending, nulls last; rows with
\* equal keys keep their table order.
DueBefore(a, b) ==
    a.due_date # NoDate /\ (b.due_date = NoDate \/ a.due_date < b.due_date)

RECURSIVE InsertByDue(_, _)
InsertByDue(sorted, t) ==
    IF sorted = <<>> THEN <<t>>
    ELSE IF DueBefore(t, Head(sorted)) THEN <<t>> \o sorted
    ELSE <<Head(sorted)>> \o InsertByDue(Tail(sorted), t)

RECURSIVE SortByDue(_)
SortByDue(rows) ==
    IF rows = <<>> THEN <<>>
    ELSE InsertByDue(SortByDue(SubSeq(rows, 1, Len(rows) - 1)), rows[Len(rows)])

\* getWorkspaceContext(supabase, userId)
GetWorkspaceContext(client, d, uid, lost) ==
    LET projects == IF "projects" \in lost THEN NullData
                    ELSE Data(Limit(VisibleProjects(client, d), ProjectLimit))
        Mine(r)  == r.assigned_to = uid /\ r.status # "done"
        myTasks  == IF "myTasks" \in lost THEN NullData
                    ELSE Data(Limit(SortByDue(SelectSeq(VisibleTasks(client, d), Mine)),
                                    PendingLimit))
        profiles == IF "profiles" \in lost THEN NullData
                    ELSE Data(Limit(VisibleProfiles(client, d), MemberLimit))
    IN  [kind |-> "workspace",
         projects |-> [null |-> projects.null,
                       rows |-> [i \in DOMAIN projects.rows |->
                                    [id |-> projects.rows[i].id]]],
         myPendingTasks |->
            [null |-> myTasks.null,
             rows |-> [i \in DOMAIN myTasks.rows |->
                          [id      |-> myTasks.rows[i].id,
                           status  |-> myTasks.rows[i].status,
                           dueDate |-> myTasks.rows[i].due_date]]],
         teamMembers |->
            [null |-> profiles.null,
             rows |-> [i \in DOMAIN profiles.rows |->
                          [id   |-> profiles.rows[i].id,
                           name |-> IF profiles.rows[i].full_name # NoName
                                    THEN profiles.rows[i].full_name
                                    ELSE profiles.rows[i].email]]]]

NoContext == [kind |-> "none"]

-----------------------------------------------------------------------------
(* streamChat as a state machine *)

DecInit ==
    /\ wire \in Wires
    /\ pos = 0
    /\ splitLine = 0
    /\ textBuffer = <<>>
    /\ streamDone = FALSE
    /\ lineNo = 0
    /\ deltas = <<>>
    /\ dpc = "read"

\* reader.read() hands over the next k characters; the chunk is appended to
\* textBuffer and the complete lines are processed.
ReadChunk ==
    /\ dpc = "read"
    /\ pos < Len(wire)
    /\ \E k \in 1..(Len(wire) - pos) :
         LET r == ReadLoop(textBuffer \o SubSeq(wire, pos + 1, pos + k),
                           deltas, lineNo)
         IN  /\ pos' = pos + k
             /\ splitLine' = IF pos > 0 /\ wire[pos] # NL
                             THEN LineAt(wire, pos) ELSE 0
             /\ textBuffer' = r.buf
             /\ deltas' = r.out
             /\ lineNo' = r.n
             /\ streamDone' = r.done
             /\ dpc' = IF r.done THEN "flush" ELSE "read"
    /\ UNCHANGED wire

\* reader.read() reports done: `if (done) break`.
ReadEnd ==
    /\ dpc = "read"
    /\ pos = Len(wire)
    /\ dpc' = "flush"
    /\ UNCHANGED <<wire, pos, splitLine, textBuffer, streamDone, lineNo, deltas>>

\* The final flush, then onDone().
FinalFlush ==
    /\ dpc = "flush"
    /\ deltas' = FinalFlushOf(textBuffer, deltas, lineNo)
    /\ dpc' = "done"
    /\ UNCHANGED <<wire, pos, splitLine, textBuffer, streamDone, lineNo>>

-----------------------------------------------------------------------------
(* AIChat: sendMessage with its callbacks, and clearChat *)

\* A message of the transcript (its timestamp is left out).
Message(id, role, content) == [id |-> id, role |-> role, content |-> content]

\* crypto.randomUUID(): an id no other message has; here the kind of the
\* message and the number of the send that made it.
NewId(kind, n) == <<kind, n>>
NoMessageId == <<>>

\* A faulty variant of UpdateAssistant: the new content is written to every
\* assistant message of the transcript.
UpdateAssistant_EveryAssistant(prev, id, content) ==
    IF prev # <<>> /\ prev[Len(prev)].role = "assistant" /\ prev[Len(prev)].id = id
    THEN [i \in DOMAIN prev |->
             IF prev[i].role = "assistant"
             THEN [prev[i] EXCEPT !.content = content] ELSE prev[i]]
    ELSE Append(prev, Message(id, "assistant", content))

\* The updater updateAssistant hands to setMessages, content being
\* assistantContent after `assistantContent += chunk`.
UpdateAssistant(prev, id, content) ==
    IF prev # <<>> /\ prev[Len(prev)].role = "assistant" /\ prev[Len(prev)].id = id
    THEN [prev EXCEPT ![Len(prev)].content = content]
    ELSE Append(prev, Message(id, "assistant", content))

\* A faulty variant of OnDeltas: the message gets the chunk, not the
\* accumulated text.
RECURSIVE OnDeltas_ChunkOnly(_, _, _, _)
OnDeltas_ChunkOnly(prev, id, acc, ds) ==
    IF ds = <<>> THEN [messages |-> prev, content |-> acc]
    ELSE OnDeltas_ChunkOnly(UpdateAssistant(prev, id, Head(ds).text), id,
                            acc \o Head(ds).text, Tail(ds))

\* The onDelta calls ds of one pass of the decoder, applied in call order.
RECURSIVE OnDeltas(_, _, _, _)
OnDeltas(prev, id, acc, ds) ==
    IF ds = <<>> THEN [messages |-> prev, content |-> acc]
    ELSE OnDeltas(UpdateAssistant(prev, id, acc \o Head(ds).text), id,
                  acc \o Head(ds).text, Tail(ds))

\* What is typed, or the suggested prompt clicked.
Inputs == { <<"q">>, <<" ", "q", NL>>, <<" ">>, <<>> }

\* The response bodies the chat is tried on.
ChatWires ==
    { JoinNL(<< <<"d", ":", " ", "{", "a", "b", "}">>,
                <<"d", ":", " ", "{", "b", "}">> >>),
      JoinNL(<< <<"d", ":", " ", "{", "a">>,
                <<"d", ":", " ", "{", "a", "b", "}">> >>),
      JoinNL(<< <<"d", ":", " ", "{", "a", "}">>,
                <<"d", ":", " ", "[", "D", "]">>,
                <<"d", ":", " ", "{", "b", "}">> >>),
      <<"d", ":", " ", "{", "a", "}", NL, "d", ":", " ", "{", "b">>,
      JoinNL(<< <<"d", ":", " ", "[", "D", "]">> >>),
      JoinNL(<< <<"d", ":", " ", "{", "}">>, <<":", "a">> >>) }

\* The errors streamChat throws before it reads: fetch rejects; the
\* response is not ok and its JSON carries an error text, carries none, or
\* is no JSON.
StartFailures ==
    { "Failed to fetch", "Invalid token", "Failed to start stream", "Request failed" }

ReadFailure == "network error"

\* A faulty variant of SendMessage: the guard does not look at isLoading.
SendMessage_NoLoadingGuard ==
    /\ sent < MaxSends
    /\ \E content \in Inputs :
         IF Trim(content) = <<>> \/ ~session
         THEN UNCHANGED <<decVars, chatVars>>
         ELSE
           /\ messages' = Append(messages,
                                 Message(NewId("user", sent + 1), "user", Trim(content)))
           /\ sent' = sent + 1
           /\ isLoading' = TRUE
           /\ assistantContent' = <<>>
           /\ assistantId' = NewId("assistant", sent + 1)
           /\ cpc' = "fetch"
           \* the locals of the previous streamChat call are gone
           /\ wire' = <<>> /\ pos' = 0 /\ splitLine' = 0 /\ textBuffer' = <<>>
           /\ streamDone' = FALSE /\ lineNo' = 0 /\ deltas' = <<>> /\ dpc' = "done"
           /\ UNCHANGED session

\* sendMessage, called from the Enter key, the send button or a suggested
\* prompt: if (!content.trim() || isLoading || !session) return; otherwise
\* the user message is appended and the request starts.  The handler sees
\* the isLoading of the latest render, and the state set in one input event
\* is rendered before the next event is handled.
SendMessage ==
    /\ sent < MaxSends
    /\ \E content \in Inputs :
         IF Trim(content) = <<>> \/ isLoading \/ ~session
         THEN UNCHANGED <<decVars, chatVars>>
         ELSE
           /\ messages' = Append(messages,
                                 Message(NewId("user", sent + 1), "user", Trim(content)))
           /\ sent' = sent + 1
           /\ isLoading' = TRUE
           /\ assistantContent' = <<>>
           /\ assistantId' = NewId("assistant", sent + 1)
           /\ cpc' = "fetch"
           \* the locals of the previous streamChat call are gone
           /\ wire' = <<>> /\ pos' = 0 /\ splitLine' = 0 /\ textBuffer' = <<>>
           /\ streamDone' = FALSE /\ lineNo' = 0 /\ deltas' = <<>> /\ dpc' = "done"
           /\ UNCHANGED session

\* A faulty variant of CatchChat: the catch does not call setIsLoading(false).
CatchChat_KeepsLoading(message) ==
    /\ messages' = Append(messages,
                          Message(NewId("error", sent), "assistant",
                                  <<"Error: ", message>>))
    /\ isLoading' = isLoading
    /\ cpc' = "idle"

\* The catch block of sendMessage.
CatchChat(message) ==
    /\ messages' = Append(messages,
                          Message(NewId("error", sent), "assistant",
                                  <<"Error: ", message>>))
    /\ isLoading' = FALSE
    /\ cpc' = "idle"

\* fetch rejects, or `if (!resp.ok || !resp.body) throw`.
StartFails ==
    /\ cpc = "fetch"
    /\ \E message \in StartFailures : CatchChat(message)
    /\ UNCHANGED <<decVars, session, sent, assistantContent, assistantId>>

\* The response is ok: getReader(), textBuffer = "", streamDone = false.
StartStream ==
    /\ cpc = "fetch"
    /\ wire' \in ChatWires
    /\ pos' = 0 /\ splitLine' = 0 /\ textBuffer' = <<>>
    /\ streamDone' = FALSE /\ lineNo' = 0 /\ deltas' = <<>> /\ dpc' = "read"
    /\ cpc' = "stream"
    /\ UNCHANGED <<messages, isLoading, session, sent, assistantContent, assistantId>>

\* One read of the stream; every onDelta of it runs updateAssistant.
ChatReadChunk ==
    /\ cpc = "stream"
    /\ ReadChunk
    /\ LET r == OnDeltas(messages, assistantId, assistantContent,
                         SubSeq(deltas', Len(deltas) + 1, Len(deltas')))
       IN  /\ messages' = r.messages
           /\ assistantContent' = r.content
    /\ UNCHANGED <<isLoading, session, sent, assistantId, cpc>>

\* reader.read() rejects: the error leaves streamChat and is caught.
ReadFails ==
    /\ cpc = "stream"
    /\ dpc = "read"
    /\ dpc' = "thrown"
    /\ CatchChat(ReadFailure)
    /\ UNCHANGED <<wire, pos, splitLine, textBuffer, streamDone, lineNo, deltas>>
    /\ UNCHANGED <<session, sent, assistantContent, assistantId>>

ChatReadEnd ==
    /\ cpc = "stream"
    /\ ReadEnd
    /\ UNCHANGED chatVars

\* A faulty variant of ChatFinalFlush: the flush parses without try/catch,
\* so an unparseable piece throws out of streamChat.
ChatFinalFlush_Throws ==
    /\ cpc = "stream"
    /\ dpc = "flush"
    /\ IF /\ Trim(textBuffer) # <<>>
          /\ \E i \in DOMAIN SplitNL(textBuffer) :
                LET line == StripCR(SplitNL(textBuffer)[i])
                IN  /\ ~IsCommentOrBlank(line) /\ IsDataLine(line)
                    /\ JsonStr(line) # DoneSentinel
                    /\ ~JsonParse(JsonStr(line)).ok
       THEN /\ CatchChat("Unexpected end of JSON input")
            /\ dpc' = "thrown"
            /\ UNCHANGED <<wire, pos, splitLine, textBuffer, streamDone, lineNo, deltas>>
            /\ UNCHANGED assistantContent
       ELSE /\ FinalFlush
            /\ LET r == OnDeltas(messages, assistantId, assistantContent,
                                 SubSeq(deltas', Len(deltas) + 1, Len(deltas')))
               IN  /\ messages' = r.messages
                   /\ assistantContent' = r.content
            /\ isLoading' = FALSE
            /\ cpc' = "idle"
    /\ UNCHANGED <<session, sent, assistantId>>

\* The final flush with its onDelta calls, then onDone: setIsLoading(false).
ChatFinalFlush ==
    /\ cpc = "stream"
    /\ FinalFlush
    /\ LET r == OnDeltas(messages, assistantId, assistantContent,
                         SubSeq(deltas', Len(deltas) + 1, Len(deltas')))
       IN  /\ messages' = r.messages
           /\ assistantContent' = r.content
    /\ isLoading' = FALSE
    /\ cpc' = "idle"
    /\ UNCHANGED <<session, sent, assistantId>>

\* clearChat: setMessages([]); its button is shown while there are messages.
ClearChat ==
    /\ messages # <<>>
    /\ messages' = <<>>
    /\ UNCHANGED <<decVars, isLoading, session, sent, assistantContent, assistantId, cpc>>

-----------------------------------------------------------------------------
(* The Chat Relay: the serve handler of the ai-assistant function *)

\* The sessions the backend's auth service knows: token -> user id.
Sessions == [t \in {"tok-u1"} |-> "u1"]

\* authHeader.replace("Bearer ", ""); a header is the sequence of its parts.
StripBearer(h) == IF h # <<>> /\ Head(h) = "Bearer " THEN Tail(h) ELSE h

\* req.headers.get("authorization"): <<>> when the header is absent.
AuthHeaders ==
    { <<>>, <<"Bearer ", "tok-u1">>, <<"tok-u1">>, <<"Bearer ", "tok-expired">> }

\* The body: whether it is JSON at all, and its projectId and action fields.
Bodies ==
    [json : BOOLEAN, projectId : {NoId, "p1", "p2"}, action : {"", "get_context"}]

Requests == [method : {"OPTIONS", "POST"}, auth : AuthHeaders, body : Bodies]

\* The texts the relay must keep from the caller.
UpstreamErrorText == "raw upstream error text"
FetchExceptionText == "error sending request for url (ai.gateway.lovable.dev)"
JsonExceptionText == "Unexpected token in JSON"

\* What fetch(...) to the model gateway can give: it throws, or a response.
UpstreamOutcomes ==
    { [kind |-> "threw", status |-> 0, body |-> FetchExceptionText] }
      \cup { [kind |-> "response", status |-> st, body |-> "event stream"] :
                st \in {200, 204} }
      \cup { [kind |-> "response", status |-> st, body |-> UpstreamErrorText] :
                st \in {400, 402, 429, 500, 503} }
NoUpstream == [kind |-> "none", status |-> 0, body |-> ""]

Json == "application/json"

\* const corsHeaders: every response of the handler carries them.
corsHeaders ==
    [origin |-> "*",
     headers |-> "authorization, x-client-info, apikey, content-type, ..."]

Response(status, contentType, error, body) ==
    [status |-> status, contentType |-> contentType, error |-> error, body |-> body,
     cors |-> corsHeaders]
NoResponse == [Response(0, "", "", "") EXCEPT !.cors = [origin |-> "", headers |-> ""]]

\* A faulty variant of ErrorResponse: the content-type header is left out.
ErrorResponse_NoContentType(status, error) == Response(status, "", error, "")

\* new Response(JSON.stringify({ error }), { status, headers: json })
ErrorResponse(status, error) == Response(status, Json, error, "")

\* A faulty variant of UpstreamResponse: the upstream status is passed on.
UpstreamResponse_PassStatus(out) ==
    IF out.status \notin 200..299
    THEN ErrorResponse(out.status, "AI service error")
    ELSE Response(200, "text/event-stream", "", out.body)

\* The branching on the upstream response (response.ok is status 200..299).
UpstreamResponse(out) ==
    IF out.status \notin 200..299
    THEN IF out.status = 429
         THEN ErrorResponse(429, "Rate limit exceeded. Please try again later.")
         ELSE IF out.status = 402
         THEN ErrorResponse(402, "AI credits exhausted. Please add more credits.")
         ELSE ErrorResponse(500, "AI service error")
    ELSE Response(200, "text/event-stream", "", out.body)

\* The catch block: error.message goes to the log and to the caller.
Catch(message) ==
    /\ resp' = ErrorResponse(500, message)
    /\ console' = console \cup {message}
    /\ rpc' = "error"

NoCalls == [getUser |-> 0, assembler |-> 0, upstream |-> 0]

RelayStart ==
    /\ rpc = "start"
    /\ user = NoId
    /\ context = NoContext
    /\ failed = {}
    /\ upstream = NoUpstream
    /\ resp = NoResponse
    /\ calls = NoCalls
    /\ console = {}

\* A faulty variant of Preflight: the OPTIONS test comes after the test for
\* the authorization header.
Preflight_AfterAuthCheck ==
    /\ rpc = "start"
    /\ req.method = "OPTIONS"
    /\ IF req.auth = <<>>
       THEN resp' = ErrorResponse(401, "No authorization header") /\ rpc' = "error"
       ELSE resp' = Response(200, "", "", "") /\ rpc' = "done"
    /\ UNCHANGED <<req, user, context, failed, upstream, calls, console>>

\* if (req.method === "OPTIONS") return new Response(null, { headers })
Preflight ==
    /\ rpc = "start"
    /\ req.method = "OPTIONS"
    /\ resp' = Response(200, "", "", "")
    /\ rpc' = "done"
    /\ UNCHANGED <<req, user, context, failed, upstream, calls, console>>

\* if (!authHeader) return 401
NoAuthHeader ==
    /\ rpc = "start"
    /\ req.method # "OPTIONS"
    /\ req.auth = <<>>
    /\ resp' = ErrorResponse(401, "No authorization header")
    /\ rpc' = "error"
    /\ UNCHANGED <<req, user, context, failed, upstream, calls, console>>

\* A faulty variant of VerifyUser: the token is verified although the
\* header is absent.
VerifyUser_NoHeaderCheck ==
    /\ rpc = "start"
    /\ req.method # "OPTIONS"
    /\ calls' = [calls EXCEPT !.getUser = @ + 1]
    /\ \E backendOk \in BOOLEAN :
         LET token == StripBearer(req.auth)
         IN  IF backendOk /\ token \in {<<t>> : t \in DOMAIN Sessions}
             THEN /\ user' = Sessions[token[1]]
                  /\ rpc' = "body"
                  /\ UNCHANGED resp
             ELSE /\ resp' = ErrorResponse(401, "Invalid token")
                  /\ rpc' = "error"
                  /\ UNCHANGED user
    /\ UNCHANGED <<req, context, failed, upstream, console>>

\* A faulty variant of VerifyUser: a token the backend does not resolve to a
\* user is let through.
VerifyUser_IgnoreError ==
    /\ rpc = "start"
    /\ req.method # "OPTIONS"
    /\ req.auth # <<>>
    /\ calls' = [calls EXCEPT !.getUser = @ + 1]
    /\ \E backendOk \in BOOLEAN :
         LET token == StripBearer(req.auth)
         IN  /\ user' = IF backendOk /\ token \in {<<t>> : t \in DOMAIN Sessions}
                        THEN Sessions[token[1]] ELSE NoId
             /\ rpc' = "body"
             /\ UNCHANGED resp
    /\ UNCHANGED <<req, context, failed, upstream, console>>

\* supabase.auth.getUser(token); if (authError || !user) return 401
VerifyUser ==
    /\ rpc = "start"
    /\ req.method # "OPTIONS"
    /\ req.auth # <<>>
    /\ calls' = [calls EXCEPT !.getUser = @ + 1]
    /\ \E backendOk \in BOOLEAN :
         LET token == StripBearer(req.auth)
         IN  IF backendOk /\ token \in {<<t>> : t \in DOMAIN Sessions}
             THEN /\ user' = Sessions[token[1]]
                  /\ rpc' = "body"
                  /\ UNCHANGED resp
             ELSE /\ resp' = ErrorResponse(401, "Invalid token")
                  /\ rpc' = "error"
                  /\ UNCHANGED user
    /\ UNCHANGED <<req, context, failed, upstream, console>>

\* const { messages, projectId, action } = await req.json()
ParseBody ==
    /\ rpc = "body"
    /\ IF req.body.json
       THEN /\ rpc' = IF req.body.action = "get_context" THEN "get_context" ELSE "context"
            /\ UNCHANGED <<resp, console>>
       ELSE Catch(JsonExceptionText)
    /\ UNCHANGED <<req, user, context, failed, upstream, calls>>

\* The lookups that come back with an error: those the backend fails, and
\* all of them when projectId is undefined (the filter value is no uuid).
Lost(pid, backendFails) == IF pid = NoId THEN ProjectLookups ELSE backendFails

\* if (action === "get_context") return { context }
GetContextAction ==
    /\ rpc = "get_context"
    /\ \E backendFails \in SUBSET ProjectLookups :
         /\ failed' = Lost(req.body.projectId, backendFails)
         /\ context' = GetProjectContext(RelayClient, db, now, user, req.body.projectId,
                                         Lost(req.body.projectId, backendFails))
    /\ calls' = [calls EXCEPT !.assembler = @ + 1]
    /\ resp' = Response(200, Json, "", "context")
    /\ rpc' = "done"
    /\ UNCHANGED <<req, user, upstream, console>>

\* if (projectId) context = await getProjectContext(...)
BuildProjectContext ==
    /\ rpc = "context"
    /\ req.body.projectId # NoId
    /\ \E backendFails \in SUBSET ProjectLookups :
         /\ failed' = backendFails
         /\ context' = GetProjectContext(RelayClient, db, now, user, req.body.projectId,
                                         backendFails)
    /\ calls' = [calls EXCEPT !.assembler = @ + 1]
    /\ rpc' = "key"
    /\ UNCHANGED <<req, user, upstream, resp, console>>

\* else context = await getWorkspaceContext(...)
BuildWorkspaceContext ==
    /\ rpc = "context"
    /\ req.body.projectId = NoId
    /\ \E backendFails \in SUBSET WorkspaceLookups :
         /\ failed' = backendFails
         /\ context' = GetWorkspaceContext(RelayClient, db, user, backendFails)
    /\ calls' = [calls EXCEPT !.assembler = @ + 1]
    /\ rpc' = "key"
    /\ UNCHANGED <<req, user, upstream, resp, console>>

\* A faulty variant of CheckKey: the key is not looked at before the fetch.
CheckKey_NoCheck ==
    /\ rpc = "key"
    /\ rpc' = "fetch"
    /\ UNCHANGED <<resp, console>>
    /\ UNCHANGED <<req, user, context, failed, upstream, calls>>

\* if (!LOVABLE_API_KEY) throw new Error("LOVABLE_API_KEY is not configured")
CheckKey ==
    /\ rpc = "key"
    /\ IF apiKey
       THEN /\ rpc' = "fetch"
            /\ UNCHANGED <<resp, console>>
       ELSE Catch("LOVABLE_API_KEY is not configured")
    /\ UNCHANGED <<req, user, context, failed, upstream, calls>>

\* A faulty variant of Forward: a failed upstream request (the fetch threw,
\* or a 5xx answer) is sent again.
Forward_Retry ==
    /\ rpc = "fetch"
    /\ calls' = [calls EXCEPT !.upstream = @ + 1]
    /\ \E out \in UpstreamOutcomes :
         /\ upstream' = out
         /\ IF out.kind = "threw" \/ out.status >= 500
            THEN UNCHANGED <<resp, rpc, console>>
            ELSE /\ resp' = UpstreamResponse(out)
                 /\ rpc' = IF out.status \in 200..299 THEN "streaming" ELSE "error"
                 /\ UNCHANGED console
    /\ UNCHANGED <<req, user, context, failed>>

\* const response = await fetch(gateway, ...), and the branching on it
Forward ==
    /\ rpc = "fetch"
    /\ calls' = [calls EXCEPT !.upstream = @ + 1]
    /\ \E out \in UpstreamOutcomes :
         /\ upstream' = out
         /\ IF out.kind = "threw" THEN Catch(out.body)
            ELSE /\ resp' = UpstreamResponse(out)
                 /\ rpc' = IF out.status \in 200..299 THEN "streaming" ELSE "error"
                 \* console.error("AI gateway error:", response.status, errorText)
                 /\ console' = IF out.status \in 200..299 \/ out.status \in {429, 402}
                               THEN console ELSE console \cup {out.body}
    /\ UNCHANGED <<req, user, context, failed>>

\* The upstream stream ends; the piped response body closes.
StreamEnd ==
    /\ rpc = "streaming"
    /\ rpc' = "done"
    /\ UNCHANGED <<req, user, context, failed, upstream, resp, calls, console>>

-----------------------------------------------------------------------------
(* The states the three parts start in *)

Profiles ==
    << [id |-> "u1", full_name |-> "Una", email |-> "u1@x"],
       [id |-> "u2", full_name |-> NoName, email |-> "u2@x"] >>

\* The backend the relay runs against: two projects, u1 created p1 and u2
\* created p2; whether u1 is member or client of p2 and u1's role vary.
RelayDbs ==
    { [projects |-> << [id |-> "p1", created_by |-> "u1"],
                       [id |-> "p2", created_by |-> "u2"] >>,
       tasks |-> << [project_id |-> "p1", status |-> "todo", due_date |-> 1,
                     assigned_to |-> "u1"],
                    [project_id |-> "p2", status |-> "in_progress", due_date |-> NoDate,
                     assigned_to |-> "u2"] >>,
       project_members |-> members,
       user_roles |-> {[user_id |-> "u1", role |-> role]},
       project_clients |-> clients,
       profiles |-> Profiles] :
        members \in { <<>>, << [project_id |-> "p2", user_id |-> "u1"] >> },
        role \in {"admin", "team_member", "client"},
        clients \in SUBSET {[project_id |-> "p2", user_id |-> "u1"]} }

EnvIdle ==
    /\ db = [projects |-> <<>>, tasks |-> <<>>, project_members |-> <<>>,
             user_roles |-> {}, project_clients |-> {}, profiles |-> <<>>]
    /\ now = 0
    /\ apiKey = TRUE

RelayIdle ==
    /\ req = [method |-> "OPTIONS", auth |-> <<>>,
              body |-> [json |-> FALSE, projectId |-> NoId, action |-> ""]]
    /\ RelayStart

DecIdle ==
    /\ wire = <<>>
    /\ pos = 0
    /\ splitLine = 0
    /\ textBuffer = <<>>
    /\ streamDone = FALSE
    /\ lineNo = 0
    /\ deltas = <<>>
    /\ dpc = "done"

\* The users that sign up.
NewUsers == {"s" \o ToString(i) : i \in 1..MaxSignups}

NoTx == [pc |-> "none", role |-> ""]

\* Nobody has signed up.
SignupIdle ==
    /\ tx = [u \in NewUsers |-> NoTx]
    /\ signedUp = <<>>

\* The users that can sign in, their profile rows and their roles.
AuthUsers == {"u1", "u2"}
ProfileOf(u) == [id |-> u]
NoProfile == [id |-> NoId]
RoleOf(u) == IF u = "u1" THEN "admin" ELSE "client"
NoRole == ""

\* The provider as constructed, its effect not yet run, nobody signed in.
AuthIdle ==
    /\ clientSession = NoId
    /\ events = <<>>
    /\ gotSession = FALSE
    /\ authUser = NoId
    /\ userProfile = NoProfile
    /\ userRole = NoRole
    /\ loading = TRUE
    /\ timers = <<>>
    /\ fetches = {}
    /\ signIns = 0
    /\ signingOut = FALSE

\* The component as mounted, nothing sent.
ChatIdle ==
    /\ messages = <<>>
    /\ isLoading = FALSE
    /\ session = FALSE
    /\ sent = 0
    /\ assistantContent = <<>>
    /\ assistantId = NoMessageId
    /\ cpc = "idle"

RelayInit ==
    /\ DecIdle
    /\ ChatIdle
    /\ SignupIdle
    /\ AuthIdle
    /\ db \in RelayDbs
    /\ now = 3
    /\ apiKey \in BOOLEAN
    /\ req \in Requests
    /\ RelayStart

RelayNext ==
    \/ Preflight /\ UNCHANGED <<decVars, envVars, chatVars, signupVars, authVars>>
    \/ NoAuthHeader /\ UNCHANGED <<decVars, envVars, chatVars, signupVars, authVars>>
    \/ VerifyUser /\ UNCHANGED <<decVars, envVars, chatVars, signupVars, authVars>>
    \/ ParseBody /\ UNCHANGED <<decVars, envVars, chatVars, signupVars, authVars>>
    \/ GetContextAction /\ UNCHANGED <<decVars, envVars, chatVars, signupVars, authVars>>
    \/ BuildProjectContext /\ UNCHANGED <<decVars, envVars, chatVars, signupVars, authVars>>
    \/ BuildWorkspaceContext /\ UNCHANGED <<decVars, envVars, chatVars, signupVars, authVars>>
    \/ CheckKey /\ UNCHANGED <<decVars, envVars, chatVars, signupVars, authVars>>
    \/ Forward /\ UNCHANGED <<decVars, envVars, chatVars, signupVars, authVars>>
    \/ StreamEnd /\ UNCHANGED <<decVars, envVars, chatVars, signupVars, authVars>>

SpecRelay == RelayInit /\ [][RelayNext]_vars

\* The Context Assembler on its own: the handler at the point where the
\* caller is verified and the body parsed, against any small tasks table.
TaskKinds ==
    [project_id : {"p1", "p2"}, status : {"todo", "in_progress", "done"},
     due_date : {NoDate, 1, 2}, assigned_to : {"u1"}]

ContextDbs ==
    { [projects |-> << [id |-> "p1", created_by |-> "u1"],
                       [id |-> "p2", created_by |-> "u2"] >>,
       tasks |-> ts,
       project_members |-> << [project_id |-> "p1", user_id |-> "u1"] >>,
       user_roles |-> {[user_id |-> "u1", role |-> "team_member"]},
       project_clients |-> {},
       profiles |-> Profiles] :
        ts \in UNION { [1..n -> TaskKinds] : n \in 0..MaxTasks } }

ContextInit ==
    /\ DecIdle
    /\ ChatIdle
    /\ SignupIdle
    /\ AuthIdle
    /\ db \in ContextDbs
    /\ now \in 2..5
    /\ apiKey = TRUE
    /\ req \in [method : {"POST"}, auth : {<<"Bearer ", "tok-u1">>},
                body : [json : {TRUE}, projectId : {NoId, "p1", "p2"}, action : {""}]]
    /\ rpc = "context"
    /\ user = "u1"
    /\ context = NoContext
    /\ failed = {}
    /\ upstream = NoUpstream
    /\ resp = NoResponse
    /\ calls = [getUser |-> 1, assembler |-> 0, upstream |-> 0]
    /\ console = {}

ContextNext ==
    \/ BuildProjectContext /\ UNCHANGED <<decVars, envVars, chatVars, signupVars, authVars>>
    \/ BuildWorkspaceContext /\ UNCHANGED <<decVars, envVars, chatVars, signupVars, authVars>>

SpecContext == ContextInit /\ [][ContextNext]_vars

\* The Context Assembler against large tables: n projects, n tasks of
\* project p1 and 2n profiles.  The tasks' due dates go round (none every
\* fourth), upwards or downwards; every third task may be another user's and
\* every fourth may be done.
LargeTask(i, downwards, others, dones) ==
    [project_id  |-> "p1",
     status      |-> IF dones /\ i % 4 = 1 THEN "done"
                     ELSE IF i % 2 = 0 THEN "todo" ELSE "in_progress",
     due_date    |-> IF downwards THEN (3 * i) % 4 ELSE i % 4,
     assigned_to |-> IF others /\ i % 3 = 0 THEN "u2" ELSE "u1"]

LargeDbs ==
    { [projects |-> [i \in 1..n |-> [id |-> "p" \o ToString(i), created_by |-> "u1"]],
       tasks |-> [i \in 1..n |-> LargeTask(i, downwards, others, dones)],
       project_members |-> << [project_id |-> "p1", user_id |-> "u1"] >>,
       user_roles |-> {[user_id |-> "u1", role |-> "team_member"]},
       project_clients |-> {},
       profiles |-> [i \in 1..(2 * n) |->
                        [id |-> "u" \o ToString(i),
                         full_name |-> IF i % 2 = 1 THEN "N" \o ToString(i) ELSE NoName,
                         email |-> "u" \o ToString(i) \o "@x"]]] :
        n \in 0..MaxRows, downwards \in BOOLEAN, others \in BOOLEAN, dones \in BOOLEAN }

LargeInit ==
    /\ DecIdle
    /\ ChatIdle
    /\ SignupIdle
    /\ AuthIdle
    /\ db \in LargeDbs
    /\ now = 3
    /\ apiKey = TRUE
    /\ req \in [method : {"POST"}, auth : {<<"Bearer ", "tok-u1">>},
                body : [json : {TRUE}, projectId : {NoId, "p1"}, action : {""}]]
    /\ rpc = "context"
    /\ user = "u1"
    /\ context = NoContext
    /\ failed = {}
    /\ upstream = NoUpstream
    /\ resp = NoResponse
    /\ calls = [getUser |-> 1, assembler |-> 0, upstream |-> 0]
    /\ console = {}

SpecLarge == LargeInit /\ [][ContextNext]_vars

\* The chat: the component mounted with or without a session.
ChatInit ==
    /\ DecIdle
    /\ EnvIdle
    /\ RelayIdle
    /\ SignupIdle
    /\ AuthIdle
    /\ messages = <<>>
    /\ isLoading = FALSE
    /\ session \in BOOLEAN
    /\ sent = 0
    /\ assistantContent = <<>>
    /\ assistantId = NoMessageId
    /\ cpc = "idle"

ChatNext ==
    \/ SendMessage /\ UNCHANGED <<envVars, relayVars, signupVars, authVars>>
    \/ StartFails /\ UNCHANGED <<envVars, relayVars, signupVars, authVars>>
    \/ StartStream /\ UNCHANGED <<envVars, relayVars, signupVars, authVars>>
    \/ ChatReadChunk /\ UNCHANGED <<envVars, relayVars, signupVars, authVars>>
    \/ ReadFails /\ UNCHANGED <<envVars, relayVars, signupVars, authVars>>
    \/ ChatReadEnd /\ UNCHANGED <<envVars, relayVars, signupVars, authVars>>
    \/ ChatFinalFlush /\ UNCHANGED <<envVars, relayVars, signupVars, authVars>>
    \/ ClearChat /\ UNCHANGED <<envVars, relayVars, signupVars, authVars>>

SpecChat == ChatInit /\ [][ChatNext]_vars

\* The awaited fetch settles: it rejects, or the response arrives.
FetchSettles ==
    /\ StartFails \/ StartStream
    /\ UNCHANGED <<envVars, relayVars, signupVars, authVars>>

\* A step of the stream: the awaited read delivers a chunk, reports the end
\* or rejects, or the code after the loop runs.
StreamStep ==
    /\ ChatReadChunk \/ ReadFails \/ ChatReadEnd \/ ChatFinalFlush
    /\ UNCHANGED <<envVars, relayVars, signupVars, authVars>>

\* A step of the stream is possible exactly while cpc = "stream": a read can
\* reject while the loop reads, and the flush follows the loop.
StreamStepEnabled == cpc = "stream"

\* The chat with a response that does end or fail: weak fairness of
\* FetchSettles and of StreamStep, the latter written out with
\* StreamStepEnabled for ENABLED <<StreamStep>>_vars.
SpecChatFair ==
    /\ ChatInit /\ [][ChatNext]_vars
    /\ WF_vars(FetchSettles)
    /\ ([]<>(~StreamStepEnabled) \/ []<><<StreamStep>>_vars)

DecNext ==
    \/ ReadChunk /\ UNCHANGED <<envVars, relayVars, chatVars, signupVars, authVars>>
    \/ ReadEnd /\ UNCHANGED <<envVars, relayVars, chatVars, signupVars, authVars>>
    \/ FinalFlush /\ UNCHANGED <<envVars, relayVars, chatVars, signupVars, authVars>>

DecoderInit == DecInit /\ EnvIdle /\ RelayIdle /\ ChatIdle /\ SignupIdle /\ AuthIdle

SpecDecoder == DecoderInit /\ [][DecNext]_vars

-----------------------------------------------------------------------------
(* Signups: the trigger on_auth_user_created running handle_new_user *)

\* INSERT ON auth.users: the trigger starts in the inserting transaction and
\* inserts the profile (not yet committed).
InsertUser(u) ==
    /\ tx[u].pc = "none"
    /\ tx' = [tx EXCEPT ![u] = [pc |-> "begun", role |-> ""]]
    /\ UNCHANGED <<db, now, apiKey, signedUp>>

\* IF (SELECT COUNT(*) FROM public.user_roles) = 0 THEN INSERT admin ELSE
\* INSERT team_member: the count sees the committed rows only (read
\* committed), the inserted row stays in the transaction.
CountAndInsertRole(u) ==
    /\ tx[u].pc = "begun"
    /\ tx' = [tx EXCEPT ![u] =
                 [pc |-> "counted",
                  role |-> IF db.user_roles = {} THEN "admin" ELSE "team_member"]]
    /\ UNCHANGED <<db, now, apiKey, signedUp>>

\* The transaction commits: its profile and its role row become visible.
CommitSignup(u) ==
    /\ tx[u].pc = "counted"
    /\ tx' = [tx EXCEPT ![u].pc = "committed"]
    /\ db' = [db EXCEPT
                 !.profiles = Append(@, [id |-> u, full_name |-> NoName,
                                          email |-> u \o "@x"]),
                 !.user_roles = @ \cup {[user_id |-> u, role |-> tx[u].role]}]
    /\ signedUp' = Append(signedUp, u)
    /\ UNCHANGED <<now, apiKey>>

SignupInit ==
    /\ DecIdle
    /\ EnvIdle
    /\ RelayIdle
    /\ ChatIdle
    /\ SignupIdle
    /\ AuthIdle

SignupNext ==
    \/ \E u \in NewUsers : InsertUser(u) /\ UNCHANGED <<decVars, relayVars, chatVars, authVars>>
    \/ \E u \in NewUsers : CountAndInsertRole(u) /\ UNCHANGED <<decVars, relayVars, chatVars, authVars>>
    \/ \E u \in NewUsers : CommitSignup(u) /\ UNCHANGED <<decVars, relayVars, chatVars, authVars>>

SpecSignup == SignupInit /\ [][SignupNext]_vars

-----------------------------------------------------------------------------
(* AuthProvider: the auth listener, the session check, the fetches, signOut *)

\* signIn: supabase.auth.signInWithPassword succeeds; the client holds the
\* session and notifies the listener.  The client serves its calls in call
\* order, so the getSession() of the mount has been answered.
SignIn(u) ==
    /\ signIns < MaxSignIns
    /\ gotSession
    /\ clientSession = NoId /\ ~signingOut
    /\ clientSession' = u
    /\ events' = Append(events, u)
    /\ signIns' = signIns + 1
    /\ UNCHANGED <<gotSession, authUser, userProfile, userRole, loading, timers, fetches,
                   signingOut>>

\* The callback given to onAuthStateChange, called with the next event.
OnAuthStateChange ==
    /\ events # <<>>
    /\ events' = Tail(events)
    /\ authUser' = Head(events)
    /\ IF Head(events) # NoId
       THEN /\ timers' = Append(timers, Head(events))
            /\ UNCHANGED <<userProfile, userRole>>
       ELSE /\ userProfile' = NoProfile
            /\ userRole' = NoRole
            /\ UNCHANGED timers
    /\ loading' = FALSE
    /\ UNCHANGED <<clientSession, gotSession, fetches, signIns, signingOut>>

\* The setTimeout callback: fetchProfile and fetchRole send their queries.
TimerFires ==
    /\ timers # <<>>
    /\ timers' = Tail(timers)
    /\ fetches' = fetches \cup {<<"profile", Head(timers)>>, <<"role", Head(timers)>>}
    /\ UNCHANGED <<clientSession, events, gotSession, authUser, userProfile, userRole, loading,
                   signIns, signingOut>>

\* supabase.auth.getSession().then(...): the session the client holds.
GetSessionResolves ==
    /\ ~gotSession
    /\ gotSession' = TRUE
    /\ authUser' = clientSession
    /\ fetches' = IF clientSession # NoId
                  THEN fetches \cup {<<"profile", clientSession>>, <<"role", clientSession>>}
                  ELSE fetches
    /\ loading' = FALSE
    /\ UNCHANGED <<clientSession, events, userProfile, userRole, timers, signIns, signingOut>>

\* refreshProfile: if (user) await fetchProfile(user.id).
RefreshProfile ==
    /\ authUser # NoId
    /\ <<"profile", authUser>> \notin fetches
    /\ fetches' = fetches \cup {<<"profile", authUser>>}
    /\ UNCHANGED <<clientSession, events, gotSession, authUser, userProfile, userRole, loading,
                   timers, signIns, signingOut>>

\* The query of fetchProfile answers: if (profileData) setProfile(profileData).
FetchProfileDone(u) ==
    /\ <<"profile", u>> \in fetches
    /\ fetches' = fetches \ {<<"profile", u>>}
    /\ \E found \in BOOLEAN :
         userProfile' = IF found THEN ProfileOf(u) ELSE userProfile
    /\ UNCHANGED <<clientSession, events, gotSession, authUser, userRole, loading, timers,
                   signIns, signingOut>>

\* The query of fetchRole answers: if (roleData) setRole(roleData.role).
FetchRoleDone(u) ==
    /\ <<"role", u>> \in fetches
    /\ fetches' = fetches \ {<<"role", u>>}
    /\ \E found \in BOOLEAN :
         userRole' = IF found THEN RoleOf(u) ELSE userRole
    /\ UNCHANGED <<clientSession, events, gotSession, authUser, userProfile, loading, timers,
                   signIns, signingOut>>

\* signOut up to its await: the client drops the session and notifies the
\* listener.
CallSignOut ==
    /\ gotSession
    /\ authUser # NoId /\ ~signingOut
    /\ signingOut' = TRUE
    /\ clientSession' = NoId
    /\ events' = IF clientSession # NoId THEN Append(events, NoId) ELSE events
    /\ UNCHANGED <<gotSession, authUser, userProfile, userRole, loading, timers, fetches, signIns>>

\* signOut after its await: setUser(null), setSession(null),
\* setProfile(null), setRole(null).
SignOutResumes ==
    /\ signingOut
    /\ signingOut' = FALSE
    /\ authUser' = NoId
    /\ userProfile' = NoProfile
    /\ userRole' = NoRole
    /\ UNCHANGED <<clientSession, events, gotSession, loading, timers, fetches, signIns>>

\* The provider mounts: a session may have been kept from an earlier visit.
AuthInit ==
    /\ DecIdle
    /\ EnvIdle
    /\ RelayIdle
    /\ ChatIdle
    /\ SignupIdle
    /\ clientSession \in AuthUsers \cup {NoId}
    /\ events = <<>>
    /\ gotSession = FALSE
    /\ authUser = NoId
    /\ userProfile = NoProfile
    /\ userRole = NoRole
    /\ loading = TRUE
    /\ timers = <<>>
    /\ fetches = {}
    /\ signIns = 0
    /\ signingOut = FALSE

AuthNext ==
    \/ \E u \in AuthUsers : SignIn(u) /\ UNCHANGED <<decVars, envVars, relayVars, chatVars, signupVars>>
    \/ OnAuthStateChange /\ UNCHANGED <<decVars, envVars, relayVars, chatVars, signupVars>>
    \/ TimerFires /\ UNCHANGED <<decVars, envVars, relayVars, chatVars, signupVars>>
    \/ GetSessionResolves /\ UNCHANGED <<decVars, envVars, relayVars, chatVars, signupVars>>
    \/ RefreshProfile /\ UNCHANGED <<decVars, envVars, relayVars, chatVars, signupVars>>
    \/ \E u \in AuthUsers : FetchProfileDone(u) /\ UNCHANGED <<decVars, envVars, relayVars, chatVars, signupVars>>
    \/ \E u \in AuthUsers : FetchRoleDone(u) /\ UNCHANGED <<decVars, envVars, relayVars, chatVars, signupVars>>
    \/ CallSignOut /\ UNCHANGED <<decVars, envVars, relayVars, chatVars, signupVars>>
    \/ SignOutResumes /\ UNCHANGED <<decVars, envVars, relayVars, chatVars, signupVars>>

SpecAuth == AuthInit /\ [][AuthNext]_vars

-----------------------------------------------------------------------------
(* Properties of the Stream Decoder *)

\* The texts of the onDelta calls, in call order.
Texts(ds) == [i \in DOMAIN ds |-> ds[i].text]

\* streamChat on a body delivered as one single chunk: one read, then the
\* final flush.
OneChunk(w) ==
    LET r == ReadLoop(w, <<>>, 0)
    IN  FinalFlushOf(r.buf, r.out, r.n)

\* The lines of the wire as the sender wrote them.
WireLines == SplitNL(wire)

\* Independent reading of one line of the wire: does it begin with "data: ",
\* and is what follows a record with content.
HasDataPrefix(seg) ==
    Len(seg) >= 3 /\ seg[1] = "d" /\ seg[2] = ":" /\ seg[3] = " "

RecordBody(seg) == Trim(SliceFrom(seg, 3))

IsRecord(seg) ==
    /\ HasDataPrefix(seg)
    /\ Len(RecordBody(seg)) >= 3
    /\ RecordBody(seg)[1] = "{"
    /\ RecordBody(seg)[Len(RecordBody(seg))] = "}"
    /\ \A i \in 2..(Len(RecordBody(seg)) - 1) : RecordBody(seg)[i] \in Letters

RecordContent(seg) == SubSeq(RecordBody(seg), 2, Len(RecordBody(seg)) - 1)

\* Offset of the newline that ends line k (k a newline-ended line of w).
EndOf(w, k) ==
    CHOOSE e \in 1..Len(w) :
        w[e] = NL /\ Cardinality({i \in 1..e : w[i] = NL}) = k

NumEnded(w) == Cardinality({i \in 1..Len(w) : w[i] = NL})

DeltasOf(k) == {i \in DOMAIN deltas : deltas[i].line = k}

\* C1 (as claimed): when onDone is called, the concatenation of the deltas is
\* the text the decoder gives for the same stream delivered as one chunk.
C1_ChunkInvariance ==
    dpc = "done" => Concat(Texts(deltas)) = Concat(Texts(OneChunk(wire)))

\* C2 (as claimed): once `data: [DONE]` has been taken (streamDone is set),
\* no further delta is emitted.
C2_NoDeltaAfterDone == [][streamDone => deltas' = deltas]_vars

\* C3 (as claimed): a record line delivered across two or more chunks gives
\* no delta while its newline has not arrived, and exactly one delta with its
\* full content once the chunk holding the newline has been processed.
C3_SplitLineOneDelta ==
    \A k \in 1..NumEnded(wire) :
        IsRecord(WireLines[k]) =>
            /\ EndOf(wire, k) > pos => DeltasOf(k) = {}
            /\ (splitLine = k /\ EndOf(wire, k) <= pos) =>
                   /\ Cardinality(DeltasOf(k)) = 1
                   /\ \A i \in DeltasOf(k) : deltas[i].text = RecordContent(WireLines[k])

\* A wire made only of record lines with content and of lines that are not
\* data lines.
OnlyRecordsAndNonData ==
    \A k \in DOMAIN WireLines :
        IsRecord(WireLines[k]) \/ ~HasDataPrefix(WireLines[k])

\* The lines the decoder has been given in full: the newline-ended ones
\* received so far, and every line once the stream has ended.
LinesGiven ==
    IF dpc = "done" THEN Len(WireLines)
    ELSE Cardinality({i \in 1..pos : wire[i] = NL})

RECURSIVE RecordsUpTo(_)
RecordsUpTo(k) ==
    IF k = 0 THEN <<>>
    ELSE IF IsRecord(WireLines[k])
         THEN Append(RecordsUpTo(k - 1), Delta(RecordContent(WireLines[k]), k))
         ELSE RecordsUpTo(k - 1)

\* C10: every delta comes from a line that begins with "data: "; and on a
\* wire of N record lines interleaved with non-data lines (empty lines,
\* comments, others) the deltas are exactly those of the record lines given
\* so far, in order: N deltas at the end.
C10_OnlyDataLinesEmit ==
    /\ \A i \in DOMAIN deltas :
           /\ deltas[i].line \in DOMAIN WireLines
           /\ HasDataPrefix(WireLines[deltas[i].line])
    /\ (OnlyRecordsAndNonData /\ dpc # "flush") => deltas = RecordsUpTo(LinesGiven)

\* C10 witness: the stream has ended on a wire with two record lines and a
\* comment between them, and two deltas were emitted.
C10_Witness ==
    /\ dpc = "done"
    /\ OnlyRecordsAndNonData
    /\ Len(WireLines) >= 3
    /\ IsRecord(WireLines[1])
    /\ WireLines[2] = <<":", "a">>
    /\ IsRecord(WireLines[3])
    /\ Len(deltas) = 2

\* The line is the terminal sentinel `data: [DONE]`.
IsSentinel(seg) ==
    HasDataPrefix(seg) /\ RecordBody(seg) = <<"[", "D", "]">>

\* The lines of the wire that precede the terminal sentinel: all of them
\* when there is none.
LinesBeforeSentinel ==
    IF \E k \in DOMAIN WireLines : IsSentinel(WireLines[k])
    THEN (CHOOSE k \in DOMAIN WireLines :
             /\ IsSentinel(WireLines[k])
             /\ \A j \in 1..(k - 1) : ~IsSentinel(WireLines[j])) - 1
    ELSE Len(WireLines)

\* C12 (as claimed): when onDone is called, the deltas emitted are exactly
\* the non-empty contents of the valid data lines that precede the terminal
\* sentinel, each once and in arrival order.
C12_ExactlyTheRecordsBeforeSentinel ==
    dpc = "done" => deltas = RecordsUpTo(LinesBeforeSentinel)

\* A wire line without the carriage return of a CRLF line end.
WithoutCR(seg) ==
    IF seg # <<>> /\ seg[Len(seg)] = CR THEN SubSeq(seg, 1, Len(seg) - 1) ELSE seg

\* The read loop has left a complete line in the buffer without having seen
\* the sentinel: the line it put back.
HasPushedBack == ~streamDone /\ \E i \in DOMAIN textBuffer : textBuffer[i] = NL

\* C18 (as claimed): a newline-terminated data line that fails to parse is
\* put back at the front of the buffer followed by a newline, no later line
\* has been processed, processing resumes from that line, and the record is
\* recovered: when the rest of the stream has been received, the line has
\* given its delta.
C18_PushBackRecoversRecord ==
    (dpc # "read" \/ pos > 0) /\ HasPushedBack =>
        /\ lineNo + 1 \in DOMAIN WireLines
        /\ HasDataPrefix(WireLines[lineNo + 1])
        /\ ~IsRecord(WireLines[lineNo + 1])
        /\ SubSeq(textBuffer, 1, Len(WithoutCR(WireLines[lineNo + 1])) + 1)
               = WithoutCR(WireLines[lineNo + 1]) \o <<NL>>
        /\ \A i \in DOMAIN deltas : dpc = "read" => deltas[i].line <= lineNo
        /\ dpc = "done" => DeltasOf(lineNo + 1) # {}

\* The deltas of the record lines from line k + 1 to the last line of the
\* wire, in order.
RecordsAfter(k) ==
    SubSeq(RecordsUpTo(Len(WireLines)), Len(RecordsUpTo(k)) + 1,
           Len(RecordsUpTo(Len(WireLines))))

\* C19: when the reader has reported the end of the stream, the final flush
\* goes once over every line still in the buffer, the unterminated last one
\* included: each valid data line gives its delta, in order; an unparseable
\* fragment gives nothing and does not stop the lines after it; then onDone
\* is called.
C19_FinalFlushProcessesRest ==
    [][(dpc = "flush" /\ ~streamDone) =>
          /\ deltas' = deltas \o RecordsAfter(lineNo)
          /\ dpc' = "done"]_vars

\* C19 witness: the stream ended with an unparseable line and, after it, a
\* valid data line without newline in the buffer; the flush emitted the
\* valid line's delta and onDone was called.
C19_Witness ==
    /\ dpc = "done" /\ ~streamDone
    /\ textBuffer = <<"d", ":", " ", "{", "a", NL,
                      "d", ":", " ", "{", "a", "b", "}">>
    /\ deltas = <<Delta(<<"a", "b">>, 2)>>

\* C26: once a newline-terminated data line has failed to parse, every
\* later chunk leaves the decoder where it was: no delta, no line taken, a
\* later `data: [DONE]` not acted on, the line still at the front of the
\* buffer - until the reader reports the end; and when onDone is called the
\* deltas are those of all valid lines of the stream in arrival order, the
\* later ones having come from the final flush.
C26_StallUntilEnd ==
    /\ []((dpc = "done" /\ HasPushedBack) => deltas = RecordsUpTo(Len(WireLines)))
    /\ [][(dpc = "read" /\ HasPushedBack) =>
             /\ deltas' = deltas /\ lineNo' = lineNo /\ streamDone' = FALSE
             /\ \E i \in DOMAIN textBuffer' : textBuffer'[i] = NL
             /\ dpc' = "read" \/ (dpc' = "flush" /\ pos = Len(wire))]_vars

\* C26 witness: the first line failed to parse; the second, a valid line,
\* was completed by a later chunk; the stream has ended and the second
\* line's delta is there, emitted by the flush.
C26_Witness ==
    /\ dpc = "done" /\ HasPushedBack
    /\ wire = <<"d", ":", " ", "{", "a", NL,
                "d", ":", " ", "{", "a", "b", "}", NL>>
    /\ splitLine = 2
    /\ lineNo = 0
    /\ deltas = <<Delta(<<"a", "b">>, 2)>>

-----------------------------------------------------------------------------
(* Properties of the chat transcript *)

\* Message i is the assistant message of the reply being streamed.
InProgress(i) ==
    /\ i = Len(messages)
    /\ cpc = "stream"
    /\ messages[i].role = "assistant"
    /\ messages[i].id = assistantId

\* The step keeps every message in place and unchanged, but for the content
\* of the in-progress assistant message; it may append.
KeepsTranscript ==
    /\ Len(messages') >= Len(messages)
    /\ \A i \in DOMAIN messages :
           \/ messages'[i] = messages[i]
           \/ /\ InProgress(i)
              /\ messages'[i] = [messages[i] EXCEPT !.content = messages'[i].content]

\* The step is clearChat: all messages go and nothing else changes.
ClearsAll ==
    /\ messages # <<>> /\ messages' = <<>>
    /\ UNCHANGED <<decVars, isLoading, session, sent, assistantContent, assistantId, cpc>>

\* C16: the transcript is append-only between clears: every step either
\* keeps all messages in place (replacing at most the content of the
\* in-progress assistant message) or is clearChat, which removes them all.
C16_AppendOnlyBetweenClears == [][KeepsTranscript \/ ClearsAll]_vars

\* C16 witness: a second reply has been streamed under a finished first
\* reply, which still reads as it was streamed.
C16_Witness ==
    /\ cpc = "idle" /\ sent = 2 /\ Len(messages) = 4
    /\ messages[2].role = "assistant" /\ messages[2].id = <<"assistant", 1>>
    /\ messages[2].content = <<"a", "b", "b">>
    /\ messages[4].role = "assistant" /\ messages[4].id = <<"assistant", 2>>
    /\ messages[4].content = <<"a", "b">>

\* The error messages of a transcript: those the catch of sendMessage added.
ErrorMessages(ms) == {i \in DOMAIN ms : ms[i].id[1] = "error"}

\* C20: a parse failure is never surfaced.  A step of the decoder that takes
\* a chunk adds no error message and leaves the request running; the step
\* that follows the end of the stream adds none either and calls onDone
\* (isLoading goes false, the request is over) - whatever the lines were.
C20_ParseFailureNotSurfaced ==
    [][/\ (cpc = "stream" /\ pos' > pos) =>
             /\ Cardinality(ErrorMessages(messages')) = Cardinality(ErrorMessages(messages))
             /\ cpc' = "stream" /\ isLoading' /\ dpc' \in {"read", "flush"}
       /\ (cpc = "stream" /\ dpc = "flush" /\ dpc' # dpc) =>
             /\ Cardinality(ErrorMessages(messages')) = Cardinality(ErrorMessages(messages))
             /\ dpc' = "done" /\ cpc' = "idle" /\ ~isLoading']_vars

\* C20 witness: a stream with an unparseable line, which stalled the read
\* loop, has ended: the reply holds the valid line's text, there is no error
\* message, and the request is over.
C20_Witness ==
    /\ cpc = "idle" /\ ~isLoading /\ dpc = "done"
    /\ wire = <<"d", ":", " ", "{", "a", NL,
                "d", ":", " ", "{", "a", "b", "}", NL>>
    /\ Len(messages) = 2
    /\ messages[2].id = <<"assistant", 1>>
    /\ messages[2].content = <<"a", "b">>
    /\ ErrorMessages(messages) = {}

\* The places of the transcript that hold the reply in progress.
ReplyPlaces == {i \in DOMAIN messages : messages[i].id = assistantId}

\* C27: while a reply is streaming, at most one message has its assistant
\* id; that message is the last one and its content is the concatenation of
\* all deltas delivered so far; and every step that delivers a delta leaves
\* such a message at the end of the transcript, also after clearChat has
\* emptied the transcript in the middle of the stream.
C27_OneReplyMessage ==
    /\ [](cpc = "stream" =>
            /\ Cardinality(ReplyPlaces) <= 1
            /\ assistantContent = Concat(Texts(deltas))
            /\ \A i \in ReplyPlaces :
                   /\ i = Len(messages)
                   /\ messages[i] = Message(assistantId, "assistant",
                                            Concat(Texts(deltas))))
    /\ [][(cpc = "stream" /\ Len(deltas') > Len(deltas)) =>
             /\ messages' # <<>>
             /\ messages'[Len(messages')] =
                    Message(assistantId, "assistant", Concat(Texts(deltas')))
             /\ Len(messages') \in {Len(messages), Len(messages) + 1}]_vars

\* C27 witness: the transcript was cleared while the reply was streaming;
\* it holds the assistant message alone, with the text of both deltas.
C27_Witness ==
    /\ cpc = "stream" /\ sent = 1
    /\ Len(deltas) = 2
    /\ messages = << Message(<<"assistant", 1>>, "assistant", <<"a", "b", "b">>) >>

\* A request is in flight: sendMessage has started it and neither onDone
\* nor the catch has run.
InFlight == cpc # "idle"

\* The step starts a request.
StartsRequest == sent' = sent + 1

\* C28: at most one request is in flight.  isLoading is true exactly while
\* a request is in flight; a request starts only when none is in flight,
\* there is a session and the content is not blank, and the step appends
\* the trimmed user message; a step taken while a request is in flight, or
\* without session, starts none, and the only steps that change the
\* transcript meanwhile are those of the one stream, its catch, and
\* clearChat.
C28_OneRequestInFlight ==
    /\ [](isLoading <=> InFlight)
    /\ [][/\ sent' \in {sent, sent + 1}
          /\ StartsRequest =>
               (/\ ~isLoading /\ ~InFlight /\ session
                /\ isLoading' /\ cpc' = "fetch"
                /\ Len(messages') = Len(messages) + 1
                /\ SubSeq(messages', 1, Len(messages)) = messages
                /\ messages'[Len(messages')].role = "user"
                /\ messages'[Len(messages')].content # <<>>
                /\ Trim(messages'[Len(messages')].content) =
                       messages'[Len(messages')].content)
          /\ InFlight => assistantId' = assistantId
          /\ (InFlight /\ messages' # messages /\ messages' # <<>>) =>
               (/\ Len(messages') \in {Len(messages), Len(messages) + 1}
                /\ messages'[Len(messages')].role = "assistant"
                /\ messages'[Len(messages')].id \in
                       {assistantId, NewId("error", sent)})]_vars

\* C28 witness: a reply is streaming, a delta has arrived, and the user may
\* still type and press Enter or click: those calls have changed nothing.
C28_Witness ==
    /\ InFlight /\ isLoading /\ session
    /\ cpc = "stream" /\ sent = 1 /\ sent < MaxSends
    /\ Len(deltas) = 1 /\ Len(messages) = 2
    /\ messages[1].role = "user" /\ messages[2].id = assistantId

\* The texts the catch of sendMessage can show.
ErrorTexts == {<<"Error: ", m>> : m \in StartFailures \cup {ReadFailure}}

\* The step appends exactly one assistant message carrying an error text
\* and leaves every earlier message as it was.
AppendsOneError ==
    /\ Len(messages') = Len(messages) + 1
    /\ SubSeq(messages', 1, Len(messages)) = messages
    /\ messages'[Len(messages')].role = "assistant"
    /\ messages'[Len(messages')].id[1] = "error"
    /\ messages'[Len(messages')].content \in ErrorTexts

\* C29: a request that has set isLoading sets it back when the response
\* ends or fails.  isLoading goes false either at the normal end, in the
\* step of the final flush and onDone, which adds no error message, or at a
\* failure (before the stream starts or at a read), in a step that appends
\* exactly one assistant error message and leaves all earlier messages, a
\* partial reply included, unchanged; and under a response that ends or
\* fails, isLoading does go false.
C29_LoadingEnds ==
    /\ [][(isLoading /\ ~isLoading') =>
             \/ /\ dpc = "flush" /\ dpc' = "done"
                /\ ErrorMessages(messages') = ErrorMessages(messages)
             \/ /\ cpc = "fetch" \/ (cpc = "stream" /\ dpc = "read" /\ dpc' = "thrown")
                /\ AppendsOneError]_vars
    /\ [][(cpc = "stream" /\ dpc' = "thrown") => (~isLoading' /\ AppendsOneError)]_vars
    /\ (isLoading ~> ~isLoading)

\* C29 witness: a read failed after a delta had arrived: the partial reply
\* is in the transcript, followed by the one error message, and isLoading
\* is false again.
C29_Witness ==
    /\ ~isLoading /\ cpc = "idle" /\ dpc = "thrown" /\ sent = 1
    /\ Len(messages) = 3
    /\ messages[1].role = "user"
    /\ messages[2] = Message(<<"assistant", 1>>, "assistant", <<"a", "b">>)
    /\ messages[3] = Message(<<"error", 1>>, "assistant", <<"Error: ", ReadFailure>>)

-----------------------------------------------------------------------------
(* Properties of the Chat Relay *)

\* C4: a POST without authorization header is answered 401 with a JSON
\* error, and on that path no token is verified, the Context Assembler is
\* not called and nothing is sent upstream.
C4_NoAuthNoWork ==
    (req.method = "POST" /\ req.auth = <<>>) =>
        /\ calls.getUser = 0 /\ calls.assembler = 0 /\ calls.upstream = 0
        /\ context = NoContext
        /\ rpc \in {"start", "error"}
        /\ rpc = "error" =>
               /\ resp.status = 401
               /\ resp.contentType = "application/json"
               /\ resp.error = "No authorization header"

\* C4 witness: such a request has been answered.
C4_Witness ==
    /\ req.method = "POST" /\ req.auth = <<>>
    /\ rpc = "error" /\ resp.status = 401

\* C5: the upstream status decides the response: 429 -> 429 with the
\* rate-limit message, 402 -> 402, any other non-success -> 500 with the
\* generic message, success -> 200 text/event-stream with the upstream body.
C5_UpstreamStatusDecides ==
    upstream.kind = "response" =>
        /\ upstream.status = 429 =>
               /\ resp.status = 429 /\ resp.contentType = "application/json"
               /\ resp.error = "Rate limit exceeded. Please try again later."
        /\ upstream.status = 402 =>
               /\ resp.status = 402 /\ resp.contentType = "application/json"
               /\ resp.error # ""
        /\ (upstream.status \notin 200..299 /\ upstream.status \notin {429, 402}) =>
               /\ resp.status = 500 /\ resp.contentType = "application/json"
               /\ resp.error = "AI service error"
        /\ upstream.status \in 200..299 =>
               /\ resp.status = 200 /\ resp.contentType = "text/event-stream"
               /\ resp.error = "" /\ resp.body = upstream.body

\* C5 witness: the upstream answered 429 and the caller was answered.
C5_Witness ==
    /\ upstream.kind = "response" /\ upstream.status = 429
    /\ rpc = "error" /\ resp.status = 429

\* The projects whose data a context snapshot carries.
ContextProjects(c) ==
    IF c.kind = "project"
    THEN {c.project.rows[i].id : i \in DOMAIN c.project.rows}
           \cup {db.tasks[c.recentTasks.rows[i].id].project_id :
                    i \in DOMAIN c.recentTasks.rows}
           \cup (IF c.teamMembers.rows # <<>> THEN {req.body.projectId} ELSE {})
    ELSE IF c.kind = "workspace"
    THEN {c.projects.rows[i].id : i \in DOMAIN c.projects.rows}
           \cup {db.tasks[c.myPendingTasks.rows[i].id].project_id :
                    i \in DOMAIN c.myPendingTasks.rows}
    ELSE {}

\* The caller may read the project under the SELECT policies: member,
\* creator, client or admin.
MayRead(uid, pid) == ProjectsSelectPolicy(db, uid, [id |-> pid])

\* C6 (as claimed): the snapshot assembled for a verified caller carries no
\* data of a project the row-level policies hide from that caller.
C6_ContextWithinPolicies ==
    \A pid \in ContextProjects(context) : MayRead(user, pid)

\* C7 (as claimed): once a lookup of the Context Assembler has failed,
\* nothing is sent to the upstream model.
C7_FailedLookupIsFatal == failed # {} => calls.upstream = 0

\* C8 (as claimed): the error text sent to the caller is never the raw
\* upstream error text nor the text of the exception the upstream call threw.
C8_NoUpstreamDetailToCaller ==
    upstream.kind \in {"response", "threw"} =>
        resp.error \notin {UpstreamErrorText, FetchExceptionText}

\* The request has been answered.
Answered == rpc \in {"streaming", "done", "error"}

IsErrorReport(r) ==
    /\ r.contentType = "application/json"
    /\ r.error # ""
    /\ r.status \in {401, 429, 402, 500}

IsEventStream(r) ==
    r.status = 200 /\ r.contentType = "text/event-stream" /\ r.error = ""

\* C11 (as claimed): every answer to a POST is a JSON error report with
\* status 401, 429, 402 or 500, or a status-200 event stream.
C11_ErrorOrStream ==
    (req.method = "POST" /\ Answered) => IsErrorReport(resp) \/ IsEventStream(resp)

\* C11 (amended): every answer to a POST is a JSON error report with status
\* 401, 429, 402 or 500, or a status-200 event stream, or - only when the
\* body's action is "get_context" - a status-200 JSON object {context}.
C11_ErrorStreamOrContext ==
    (req.method = "POST" /\ Answered) =>
        \/ IsErrorReport(resp)
        \/ IsEventStream(resp)
        \/ /\ req.body.action = "get_context"
           /\ resp.status = 200 /\ resp.contentType = "application/json"
           /\ resp.error = "" /\ resp.body = "context"
           /\ context.kind = "project"

\* C11 witness: a POST with action get_context has been answered with the
\* context object.
C11_Witness ==
    /\ req.method = "POST" /\ req.body.action = "get_context"
    /\ rpc = "done" /\ resp.status = 200 /\ resp.body = "context"

\* C13: the relay never retries.  For one request getUser is called at most
\* once and the upstream at most once; a request is answered exactly when it
\* holds a response; an answered request that failed or finished takes no
\* further step, and a response once given is never replaced.
C13_NoRetry ==
    /\ [](/\ calls.getUser <= 1 /\ calls.upstream <= 1 /\ calls.assembler <= 1
          /\ Answered <=> resp # NoResponse)
    /\ [][/\ rpc \notin {"error", "done"}
          /\ resp # NoResponse => resp' = resp]_vars

\* C13 witness: the upstream request failed; the request ended in an error
\* after one verification and one upstream request.
C13_Witness ==
    /\ rpc = "error" /\ upstream.kind \in {"threw", "response"}
    /\ calls.getUser = 1 /\ calls.upstream = 1
    /\ resp.status \in {429, 402, 500}

\* The stage of the request, read off the handler's position.  The stage
\* Authenticating is the await of getUser, inside the step that leaves
\* Unauthenticated.
Stage ==
    CASE rpc = "start" -> "Unauthenticated"
      [] rpc \in {"body", "get_context", "context"} -> "ContextBuilding"
      [] rpc \in {"key", "fetch"} -> "Forwarding"
      [] rpc = "streaming" -> "Streaming"
      [] rpc = "done" -> "Done"
      [] rpc = "error" -> "Error"

StageRank(st) ==
    CASE st = "Unauthenticated" -> 1
      [] st = "Authenticating" -> 2
      [] st = "ContextBuilding" -> 3
      [] st = "Forwarding" -> 4
      [] st = "Streaming" -> 5
      [] st = "Done" -> 6
      [] st = "Error" -> 7

\* One step of a request keeps the stage order: it stays in its stage, moves
\* to the next one (through Authenticating when getUser is called and gives
\* a user), or ends in Error from a stage that is not terminal.
InStageOrder ==
    \/ Stage' = Stage
    \/ Stage' = "Error" /\ Stage \notin {"Done", "Error"}
    \/ Stage' # "Error" /\ StageRank(Stage') = StageRank(Stage) + 1
    \/ /\ Stage = "Unauthenticated" /\ Stage' = "ContextBuilding"
       /\ calls'.getUser = calls.getUser + 1 /\ user' # NoId

\* The caller's token is one the backend resolves to a user.
TokenIsValid == req.auth \in {<<"Bearer ", "tok-u1">>, <<"tok-u1">>}

\* No assembler read and no upstream request without a verified user; a
\* token that is not valid ends the request with the 401 InvalidAuth error.
VerifiedBeforeWork ==
    /\ (calls.assembler > 0 \/ calls.upstream > 0 \/ context # NoContext) =>
           /\ user # NoId /\ calls.getUser = 1 /\ TokenIsValid
    /\ (req.method = "POST" /\ req.auth # <<>> /\ ~TokenIsValid /\ Answered) =>
           /\ rpc = "error" /\ resp.status = 401
           /\ resp.contentType = "application/json" /\ resp.error = "Invalid token"

C15_PreflightDoesNothing ==
    req.method = "OPTIONS" =>
        /\ calls.getUser = 0 /\ calls.assembler = 0 /\ calls.upstream = 0
        /\ user = NoId /\ context = NoContext /\ upstream.kind = "none"
        /\ rpc \in {"start", "done"}
        /\ rpc = "done" =>
               /\ resp.status \in 200..299
               /\ resp.body = "" /\ resp.error = ""
               /\ resp.cors.origin = "*"
               /\ resp.cors.headers # ""

\* C15 witness: an OPTIONS request that carries a valid token has been
\* answered.
C15_Witness ==
    /\ req.method = "OPTIONS" /\ req.auth = <<"Bearer ", "tok-u1">>
    /\ rpc = "done" /\ resp.status = 200

\* C21: with the upstream credential not configured, an authenticated chat
\* request (a verified caller, no get_context action) is never forwarded,
\* and when answered it is answered once with a status-500 JSON error: the
\* Misconfigured error whenever its body could be read.
C21_MisconfiguredIsFatal ==
    (~apiKey /\ req.method = "POST" /\ user # NoId /\ req.body.action # "get_context") =>
        /\ calls.upstream = 0 /\ upstream.kind = "none"
        /\ calls.getUser = 1
        /\ rpc \notin {"fetch", "streaming", "done"}
        /\ Answered =>
               /\ rpc = "error"
               /\ resp.status = 500 /\ resp.contentType = "application/json"
               /\ resp.error # ""
               /\ req.body.json => resp.error = "LOVABLE_API_KEY is not configured"

\* C21 witness: such a request has been answered with the Misconfigured
\* error, after its context was built.
C21_Witness ==
    /\ ~apiKey /\ user = "u1" /\ req.body.action = ""
    /\ rpc = "error" /\ resp.status = 500
    /\ resp.error = "LOVABLE_API_KEY is not configured"
    /\ calls = [getUser |-> 1, assembler |-> 1, upstream |-> 0]

-----------------------------------------------------------------------------
(* Properties of the Context Assembler *)

\* The tasks of the asked project that are due before now and not done.
OverdueTasks ==
    { i \in DOMAIN db.tasks :
        /\ db.tasks[i].project_id = req.body.projectId
        /\ db.tasks[i].due_date # NoDate
        /\ db.tasks[i].due_date * 2 < now
        /\ db.tasks[i].status \in {"todo", "in_progress"} }

\* C9: in the project context (its tasks lookup having answered),
\* taskStats.overdue is the number of the project's tasks due before now
\* whose status is todo or in_progress; done tasks and tasks without a due
\* date are not counted.
C9_OverdueCount ==
    (context.kind = "project" /\ "tasks" \notin failed) =>
        context.taskStats.overdue = Cardinality(OverdueTasks)

\* C9 witness: a project with one task due in the past and open, and one
\* due in the past and done; overdue is 1.
C9_Witness ==
    /\ context.kind = "project" /\ "tasks" \notin failed
    /\ context.taskStats.overdue = 1
    /\ context.taskStats.total = 2
    /\ \E i \in DOMAIN db.tasks :
           /\ db.tasks[i].project_id = req.body.projectId
           /\ db.tasks[i].status = "done"
           /\ db.tasks[i].due_date # NoDate /\ db.tasks[i].due_date * 2 < now

\* The pending tasks of a workspace context, as rows of the tasks table.
PendingTask(i) == db.tasks[context.myPendingTasks.rows[i].id]

\* C17: the workspace context holds at most 10 projects, at most 10 pending
\* tasks and at most 20 team members; every pending task is assigned to the
\* caller and is not done; the pending tasks are in ascending due-date
\* order, those without a due date last.
C17_WorkspaceBounded ==
    context.kind = "workspace" =>
        /\ Len(context.projects.rows) <= 10
        /\ Len(context.myPendingTasks.rows) <= 10
        /\ Len(context.teamMembers.rows) <= 20
        /\ \A i \in DOMAIN context.myPendingTasks.rows :
               /\ PendingTask(i).assigned_to = user
               /\ PendingTask(i).status \in {"todo", "in_progress"}
        /\ \A i, j \in DOMAIN context.myPendingTasks.rows :
               i < j =>
                   /\ PendingTask(i).due_date = 0 => PendingTask(j).due_date = 0
                   /\ PendingTask(j).due_date # 0 =>
                          PendingTask(i).due_date <= PendingTask(j).due_date

\* C17 witness: more than 10 projects, more than 10 open tasks of the
\* caller (with and without due dates) and more than 20 profiles exist; the
\* context holds 10, 10 and 20, a task without due date among them.
C17_Witness ==
    /\ context.kind = "workspace"
    /\ Len(db.projects) > 10 /\ Len(db.profiles) > 20
    /\ Cardinality({i \in DOMAIN db.tasks :
                       db.tasks[i].assigned_to = user /\ db.tasks[i].status # "done"}) > 10
    /\ Len(context.projects.rows) = 10
    /\ Len(context.myPendingTasks.rows) = 10
    /\ Len(context.teamMembers.rows) = 20
    /\ PendingTask(1).due_date = 1
    /\ PendingTask(10).due_date = 0

\* The open tasks of the asked project that are assigned to u.
OpenTasksOf(u) ==
    { i \in DOMAIN db.tasks :
        /\ db.tasks[i].project_id = req.body.projectId
        /\ db.tasks[i].assigned_to = u
        /\ db.tasks[i].status \in {"todo", "in_progress"} }

\* C22 (as claimed): in the project context (its lookups having answered)
\* the workload mapping gives each assignee the number of that assignee's
\* open tasks in the project, done tasks not counted, and a team member's
\* taskCount is the member's entry in the mapping, 0 when there is none.
C22_WorkloadCountsOpenTasks ==
    (context.kind = "project" /\ failed = {}) =>
        /\ \A u \in DOMAIN context.workloadDistribution :
               context.workloadDistribution[u] = Cardinality(OpenTasksOf(u))
        /\ \A u \in {"u1", "u2"} :
               OpenTasksOf(u) # {} => u \in DOMAIN context.workloadDistribution
        /\ \A i \in DOMAIN context.teamMembers.rows :
               context.teamMembers.rows[i].taskCount =
                   Cardinality(OpenTasksOf(context.teamMembers.rows[i].id))

\* The profiles row of user u, as a set (empty when u is no user).
ProfileRows(u) == {db.profiles[i] : i \in {j \in DOMAIN db.profiles : db.profiles[j].id = u}}

\* The display name of an assignee: full name, else email, else "Unassigned".
DisplayName(u) ==
    IF \E p \in ProfileRows(u) : p.full_name # ""
    THEN (CHOOSE p \in ProfileRows(u) : p.full_name # "").full_name
    ELSE IF \E p \in ProfileRows(u) : p.email # ""
    THEN (CHOOSE p \in ProfileRows(u) : p.email # "").email
    ELSE "Unassigned"

\* C23 (as claimed): every task of the recent-task list shows as assignee
\* the full name of the task's assignee, else the assignee's email, else
\* "Unassigned".
C23_AssigneeDisplayName ==
    context.kind = "project" =>
        \A i \in DOMAIN context.recentTasks.rows :
            context.recentTasks.rows[i].assignee =
                DisplayName(db.tasks[context.recentTasks.rows[i].id].assigned_to)

\* The tasks of the asked project, by their place in creation order.
ProjectTasks == {i \in DOMAIN db.tasks : db.tasks[i].project_id = req.body.projectId}

ProjectTasksWith(st) == {i \in ProjectTasks : db.tasks[i].status = st}

\* C24: the recent-task list of the project context (its tasks lookup
\* having answered) holds at most 10 tasks: the project's most recently
\* created ones, newest first; the status counts are taken over all tasks
\* of the project.
C24_RecentTenCountsAll ==
    (context.kind = "project" /\ "tasks" \notin failed) =>
        LET rows == context.recentTasks.rows
            listed == {rows[i].id : i \in DOMAIN rows}
        IN  /\ Len(rows) <= 10
            /\ Len(rows) = 10 \/ Len(rows) = Cardinality(ProjectTasks)
            /\ listed \subseteq ProjectTasks
            /\ \A i, j \in DOMAIN rows : i < j => rows[i].id > rows[j].id
            /\ \A t \in ProjectTasks \ listed : \A l \in listed : t < l
            /\ context.taskStats.total = Cardinality(ProjectTasks)
            /\ context.taskStats.todo = Cardinality(ProjectTasksWith("todo"))
            /\ context.taskStats.inProgress = Cardinality(ProjectTasksWith("in_progress"))
            /\ context.taskStats.done = Cardinality(ProjectTasksWith("done"))
            /\ context.taskStats.overdue = Cardinality(OverdueTasks)

\* C24 witness: a project of 12 tasks, some of them done; the list holds the
\* 10 newest, the newest first, and the counts cover all 12.
C24_Witness ==
    /\ context.kind = "project" /\ "tasks" \notin failed
    /\ Cardinality(ProjectTasks) = 12
    /\ Len(context.recentTasks.rows) = 10
    /\ context.recentTasks.rows[1].id = 12
    /\ context.recentTasks.rows[10].id = 3
    /\ context.taskStats.total = 12
    /\ context.taskStats.done = 3
    /\ db.tasks[1].status = "done"

\* The users the trigger has given a role, by role.
RoleHolders(r) == {x.user_id : x \in {y \in db.user_roles : y.role = r}}

\* C25 (as claimed): once every signup that started has committed, exactly
\* one user holds the admin role, the first to have signed up, and every
\* other user holds team_member.
C25_ExactlyOneAdmin ==
    (signedUp # <<>> /\ \A u \in NewUsers : tx[u].pc \in {"none", "committed"}) =>
        /\ RoleHolders("admin") = {signedUp[1]}
        /\ RoleHolders("team_member") = {signedUp[i] : i \in 2..Len(signedUp)}

-----------------------------------------------------------------------------
(* Properties of the AuthProvider *)

\* C30: whenever no user is signed in (user is null), profile and role are
\* null too - also when a fetch started for an earlier session answers
\* after the sign-out.
C30_NoProfileWithoutUser ==
    authUser = NoId => (userProfile = NoProfile /\ userRole = NoRole)

=============================================================================
